---- MODULE Spec2Model ----
(***************************************************************************)
(* A model of mu/modes/codeinpython.py: the path resolver of               *)
(* CodeInPython_Settings (path_clean, __path_create, valid_path,           *)
(* path_get), the zip installer (zip_check_content, zip_get_version,       *)
(* update_data_from_zip, recursive_overwrite) and the settings object.     *)
(*                                                                         *)
(* A Python str is a sequence of one-character strings, so that            *)
(* str.startswith, str.split, str.strip, re.sub and the os.path functions  *)
(* are computed character by character, as the library computes them.      *)
(***************************************************************************)
EXTENDS Integers, Sequences, FiniteSets, TLC

(***************************************************************************)
(* Characters and Python str methods                                       *)
(***************************************************************************)
Sep == "/"
Letters ==
    {"a","b","c","d","e","f","g","h","i","j","k","l","m","n","o","p","q","r",
     "s","t","u","v","w","x","y","z","A","B","C","D","E","F","G","H","I","J",
     "K","L","M","N","O","P","Q","R","S","T","U","V","W","X","Y","Z"}
Digits == {"0","1","2","3","4","5","6","7","8","9"}
\* the characters the regular expression class \w matches
WordChars == Letters \cup Digits \cup {"_"}
\* the characters str.strip() strips
Whitespace == {" ", "\t", "\n"}

EmptyStr == <<>>
Dot == <<".">>
DotDot == <<".", ".">>
\* element.text of an XML element without text, and a None parameter
None == <<"None">>

startswith(s, prefix) ==
    /\ Len(prefix) <= Len(s)
    /\ SubSeq(s, 1, Len(prefix)) = prefix

\* s.split(c): the pieces between the occurrences of c, empty pieces kept
str_split(s, c) ==
    LET hits == {i \in 1..Len(s) : s[i] = c}
        \* the position of the k-th occurrence of c; 0 and Len(s) + 1 bound s
        at(k) == IF k = 0 THEN 0
                 ELSE IF k > Cardinality(hits) THEN Len(s) + 1
                 ELSE CHOOSE i \in hits :
                          Cardinality({j \in hits : j < i}) = k - 1
    IN [k \in 1..(Cardinality(hits) + 1) |->
            SubSeq(s, at(k - 1) + 1, at(k) - 1)]

RECURSIVE str_join(_, _)
\* c.join(parts)
str_join(parts, c) ==
    IF parts = <<>> THEN <<>>
    ELSE IF Len(parts) = 1 THEN Head(parts)
    ELSE Head(parts) \o <<c>> \o str_join(Tail(parts), c)

\* s.strip(): without the leading and the trailing whitespace
strip(s) ==
    LET keep == {i \in 1..Len(s) : s[i] \notin Whitespace}
    IN IF keep = {} THEN <<>>
       ELSE SubSeq(s, CHOOSE i \in keep : \A j \in keep : i <= j,
                      CHOOSE i \in keep : \A j \in keep : j <= i)

\* s.replace(a, b) for single characters a, b
replace(s, a, b) == [i \in 1..Len(s) |-> IF s[i] = a THEN b ELSE s[i]]

\* re.sub(r"(?u)[^-\w.]", "", s)
re_sub(s) == SelectSeq(s, LAMBDA ch : ch \in WordChars \cup {"-", "."})

\* s.rstrip("/")
rstrip_sep(s) ==
    LET keep == {i \in 1..Len(s) : s[i] # Sep}
    IN IF keep = {} THEN <<>>
       ELSE SubSeq(s, 1, CHOOSE i \in keep : \A j \in keep : j <= i)

\* position of the last "/" of s, 0 when there is none
rfind_sep(s) ==
    LET hits == {i \in 1..Len(s) : s[i] = Sep}
    IN IF hits = {} THEN 0 ELSE CHOOSE i \in hits : \A j \in hits : j <= i

(***************************************************************************)
(* posixpath                                                               *)
(***************************************************************************)
isabs(s) == s # <<>> /\ Head(s) = Sep

\* os.path.join(a, b)
join(a, b) ==
    IF isabs(b) THEN b
    ELSE IF a = <<>> \/ a[Len(a)] = Sep THEN a \o b
    ELSE a \o <<Sep>> \o b

\* os.path.split(p): <<head, tail>>
split(p) ==
    LET i == rfind_sep(p)
        head == SubSeq(p, 1, i)
        tail == SubSeq(p, i + 1, Len(p))
    IN IF head # <<>> /\ rstrip_sep(head) # <<>>
       THEN <<rstrip_sep(head), tail>>
       ELSE <<head, tail>>

dirname(p) == SubSeq(split(p)[1], 1, Len(split(p)[1]))
basename(p) == SubSeq(p, rfind_sep(p) + 1, Len(p))

\* os.path.splitext(p)[1]: from the last dot of the base name, the leading
\* dots of the base name not counting
splitext_ext(p) ==
    LET b == basename(p)
        dots == {i \in 1..Len(b) : b[i] = "."}
        last == IF dots = {} THEN 0
                ELSE CHOOSE i \in dots : \A j \in dots : j <= i
    IN IF last = 0 \/ \A k \in 1..(last - 1) : b[k] = "."
       THEN <<>>
       ELSE SubSeq(b, last, Len(b))

RECURSIVE norm_comps(_, _, _)
\* the loop of os.path.normpath over the components
norm_comps(comps, new_comps, initial_slashes) ==
    IF comps = <<>> THEN new_comps
    ELSE LET comp == Head(comps)
             n == Len(new_comps)
         IN IF comp = <<>> \/ comp = Dot
            THEN norm_comps(Tail(comps), new_comps, initial_slashes)
            ELSE IF \/ comp # DotDot
                    \/ (initial_slashes = 0 /\ n = 0)
                    \/ (n > 0 /\ new_comps[n] = DotDot)
            THEN norm_comps(Tail(comps), Append(new_comps, comp),
                            initial_slashes)
            ELSE IF n > 0
            THEN norm_comps(Tail(comps), SubSeq(new_comps, 1, n - 1),
                            initial_slashes)
            ELSE norm_comps(Tail(comps), new_comps, initial_slashes)

\* os.path.normpath(path)
normpath(path) ==
    IF path = <<>> THEN Dot
    ELSE LET initial_slashes ==
                 IF ~isabs(path) THEN 0
                 ELSE IF /\ Len(path) >= 2 /\ path[2] = Sep
                         /\ ~(Len(path) >= 3 /\ path[3] = Sep)
                      THEN 2 ELSE 1
             comps == norm_comps(str_split(path, Sep), <<>>, initial_slashes)
             res == [i \in 1..initial_slashes |-> Sep] \o str_join(comps, Sep)
         IN IF res = <<>> THEN Dot ELSE res

(***************************************************************************)
(* The environment of the process: home and working directory, the         *)
(* default workspace of the editor, the symbolic links of the file system  *)
(***************************************************************************)
HOME == <<"/","h">>
CWD == <<"/","h">>
\* get_default_workspace()
SUBPATH_MU_CODE == <<"/","h","/","m","u","_","c","o","d","e">>
SUBPATH_MAIN == <<"c","o","d","e","i","n","p","y","t","h","o","n","_","e","n","v">>
SUBPATH_WORKSPACE == <<"w","o","r","k","s","p","a","c","e">>
SUBPATH_ARCHIVE == <<"a","r","c","h","i","v","e">>
SUBPATH_EXAMPLES == <<"e","x","a","m","p","l","e","s">>
SUBPATH_CUSTOM_EXAMPLES == <<"c","u","s","t","o","m","_","e","x","a","m","p","l","e","s">>
SUBPATH_PRIVATE_EXAMPLES == <<"p","r","i","v","a","t","e">>
SUBPATH_TRASH == <<"t","r","a","s","h">>
SUBPATH_TEMP == <<"t","e","m","p">>
SUBPATH_LIBRARIES == <<"c","o","d","e","_","l","i","b">>
SUBPATH_MU_MODULE == <<"m","u","_","m","o","d","u","l","e","s">>
SUBPATH_FIRMWARE == <<"f","i","r","m","w","a","r","e">>
ZIP_FILENAME == <<"c","o","d","e","i","n","p","y","t","h","o","n","_","u","p","d","a","t","e",".","z","i","p">>
CONFIG_FILENAME == <<"c","o","d","e","i","n","p","y","t","h","o","n","_","c","o","n","f","i","g",".","x","m","l">>
APPEND_PY_FILE == <<"a","p","p","e","n","d"," ","p","y"," ","f","i","l","e">>
PY_EXT == <<".","p","y">>
ZIP_EXT == <<".","z","i","p">>
DEFAULT_CLASS == <<"m","y","_","s","c","h","o","o","l">>

\* the workspace root and two directories beside it
RootDir == SUBPATH_MU_CODE \o <<Sep>> \o SUBPATH_MAIN
SiblingDir == RootDir \o <<"2">>
OutsideDir == <<"/","h","/","o","u","t">>
\* one symbolic link inside the root that points out of it
LinkPath == RootDir \o <<"/","l","n","k">>
SymLinks == [p \in {LinkPath} |-> OutsideDir]

\* os.path.expanduser(path): "~" and "~/..." name the home directory, the
\* home of any other user is unknown
expanduser(path) ==
    IF path = <<>> \/ Head(path) # "~" THEN path
    ELSE LET slashes == {i \in 1..Len(path) : path[i] = Sep}
             i == IF slashes = {} THEN Len(path) + 1
                  ELSE CHOOSE k \in slashes : \A j \in slashes : k <= j
         IN IF i # 2 THEN path
            ELSE LET r == rstrip_sep(HOME) \o SubSeq(path, i, Len(path))
                 IN IF r = <<>> THEN <<Sep>> ELSE r

RECURSIVE joinrealpath(_, _)
\* posixpath._joinrealpath: resolve the components of rest one by one
\* below the already resolved path
joinrealpath(path, rest) ==
    IF rest = <<>> THEN path
    ELSE LET name == Head(rest)
         IN IF name = <<>> \/ name = Dot
            THEN joinrealpath(path, Tail(rest))
            ELSE IF name = DotDot
            THEN joinrealpath(split(path)[1], Tail(rest))
            ELSE LET newpath == join(path, name)
                 IN IF newpath \in DOMAIN SymLinks
                    THEN LET target == SymLinks[newpath]
                             resolved ==
                                 IF isabs(target)
                                 THEN joinrealpath(<<Sep>>,
                                          str_split(Tail(target), Sep))
                                 ELSE joinrealpath(path,
                                          str_split(target, Sep))
                         IN joinrealpath(resolved, Tail(rest))
                    ELSE joinrealpath(newpath, Tail(rest))

\* os.path.realpath(filename)
realpath(filename) ==
    LET absolute == IF isabs(filename) THEN filename ELSE join(CWD, filename)
    IN normpath(joinrealpath(<<Sep>>, str_split(Tail(absolute), Sep)))

\* path_clean(path_to_clean) with lowercase=False, real=True
path_clean(path_to_clean) ==
    IF path_to_clean = <<>> THEN <<>>
    ELSE realpath(expanduser(normpath(path_to_clean)))

(***************************************************************************)
(* CodeInPython_Settings: the path resolver                                *)
(***************************************************************************)
\* what a call that raises ValueError yields
ValueError == <<"ValueError">>

RECURSIVE params_separate(_)
\* the first loop of __path_create: every parameter that is not None is
\* normalised and split at the separator
params_separate(parameters) ==
    IF parameters = <<>> THEN <<>>
    ELSE IF Head(parameters) = None THEN params_separate(Tail(parameters))
    ELSE str_split(normpath(Head(parameters)), Sep)
             \o params_separate(Tail(parameters))

\* the second loop of __path_create: one segment sanitised
sanitize(element) == re_sub(replace(strip(element), " ", "_"))

params_clean(parameters) ==
    LET ps == params_separate(parameters)
    IN [i \in 1..Len(ps) |-> sanitize(ps[i])]

DefinedPlaces ==
    {"main", "workspace", "class", "student", "student file",
     "student private", "student private file", "examples",
     "custom examples", "zip install", "zip install default file",
     "zip_archive", "zip archive file", "temp", "libraries", "firmware",
     "mu_modules"}

\* path_struct[place] of __path_create
path_struct(place, params, user, class) ==
    LET main == <<SUBPATH_MU_CODE, SUBPATH_MAIN>>
        work == main \o <<SUBPATH_WORKSPACE>>
    IN CASE place = "main" -> main \o params
         [] place = "workspace" -> work \o params
         [] place = "class" -> work \o <<class>> \o params
         [] place = "student" -> work \o <<class, user>> \o params
         [] place = "student file" ->
                work \o <<class, user>> \o params \o <<APPEND_PY_FILE>>
         [] place = "student private" ->
                work \o <<class, user, SUBPATH_PRIVATE_EXAMPLES>> \o params
         [] place = "student private file" ->
                work \o <<class, user, SUBPATH_PRIVATE_EXAMPLES>> \o params
                     \o <<APPEND_PY_FILE>>
         [] place = "examples" -> main \o <<SUBPATH_EXAMPLES>> \o params
         [] place = "custom examples" ->
                main \o <<SUBPATH_CUSTOM_EXAMPLES>> \o params
         [] place = "zip install" -> main \o params
         [] place = "zip install default file" -> main \o <<ZIP_FILENAME>>
         [] place = "zip_archive" -> main \o <<SUBPATH_ARCHIVE>> \o params
         [] place = "zip archive file" ->
                main \o <<SUBPATH_ARCHIVE, ZIP_FILENAME>>
         [] place = "temp" -> main \o <<SUBPATH_TEMP>> \o params
         [] place = "libraries" -> main \o <<SUBPATH_LIBRARIES>> \o params
         [] place = "firmware" -> main \o <<SUBPATH_FIRMWARE>> \o params
         [] place = "mu_modules" -> main \o <<SUBPATH_MU_MODULE>> \o params

RECURSIVE path_assemble(_, _)
\* the last loop of __path_create
path_assemble(path, path_subelements) ==
    IF path_subelements = <<>> THEN path
    ELSE LET element == Head(path_subelements)
             next == IF element = APPEND_PY_FILE
                     THEN join(path, split(path)[2] \o PY_EXT)
                     ELSE join(path, element)
         IN path_assemble(next, Tail(path_subelements))

\* a __path_create that ends every path with user_name
path_create_by_user(place, parameters, user, class) ==
    IF place \notin DefinedPlaces THEN ValueError
    ELSE path_clean(path_assemble(<<>>,
             path_struct(place, params_clean(parameters) \o <<user>>,
                         user, class)))

\* a __path_create that resolves a place it does not know to the empty path
path_create_any_place(place, parameters, user, class) ==
    IF place \notin DefinedPlaces THEN <<>>
    ELSE path_clean(path_assemble(<<>>,
             path_struct(place, params_clean(parameters), user, class)))

\* __path_create(place, *parameters) of a settings object whose user_name
\* is user and whose subpath_class is class
path_create(place, parameters, user, class) ==
    IF place \notin DefinedPlaces THEN ValueError
    ELSE path_clean(path_assemble(<<>>,
             path_struct(place, params_clean(parameters), user, class)))

\* valid_path(path_input, allow_main); the "main" place takes neither
\* user_name nor subpath_class
valid_path(path_input, allow_main) ==
    LET path_limit == path_create("main", <<>>, <<>>, <<>>)
        path_to_check == path_clean(path_input)
    IN IF allow_main THEN startswith(path_to_check, path_limit)
       ELSE startswith(split(path_to_check)[1], path_limit)

\* path_get without its containment check
path_get_check_unchecked(path_created) == path_created

\* the check and the return of path_get, given what __path_create returned
path_get_check(path_created) ==
    IF path_created = ValueError THEN ValueError
    ELSE IF valid_path(path_created, TRUE) THEN path_created
    ELSE <<>>

\* path_get(place, *parameters)
path_get(place, parameters, user, class) ==
    path_get_check(path_create(place, parameters, user, class))

(***************************************************************************)
(* State                                                                   *)
(***************************************************************************)
VARIABLES
    user_name,           \* CodeInPython_Settings.user_name
    subpath_class,       \* CodeInPython_Settings.subpath_class
    settings_from_file,  \* CodeInPython_Settings.settings_from_file
    dialog_user,         \* whether the mode object has its dialog_user
    object_to_update,    \* CodeInPython_Settings.object_to_update
    panel_updates,       \* the update() calls of the last handler on panels
    call,                \* the last call of the resolver and what it returned
    fs,                  \* the file system
    run                  \* the last call of the installer and how it ended

settings_vars ==
    <<user_name, subpath_class, settings_from_file, dialog_user,
      object_to_update, panel_updates>>
install_vars == <<fs, run>>
vars ==
    <<user_name, subpath_class, settings_from_file, dialog_user,
      object_to_update, panel_updates, call, fs, run>>

(***************************************************************************)
(* The inputs of the resolver                                              *)
(***************************************************************************)
\* the longest parameter sequence of a resolver call
MaxParams == 1

\* texts the line edits accept: QRegExpValidator("[0-9A-Za-z_+=-]{20}")
UserTexts == {<<>>, <<"b","o","b">>, <<"a","+","b">>}
ClassTexts == {<<"k","l","_","1">>}
\* class_name values a settings file can hold
ClassFileTexts ==
    {DEFAULT_CLASS, <<".",".","/",".",".","/",".",".">>, <<"a","/","b">>}

\* parameter strings
ParamTexts ==
    {<<"x">>,
     <<"a","/","b">>,
     <<"/","x">>,
     <<".",".">>,
     <<".",".","/","x">>,
     <<"a",".",".","b">>,
     <<".",".","/","c","o","d","e","i","n","p","y","t","h","o","n","_","e","n","v","2","/","x">>,
     <<"l","n","k","/","x">>,
     <<" ","a"," ","b","\t","c"," ">>,
     None}

RECURSIVE SeqsUpTo(_, _)
\* the sequences over S of length at most k
SeqsUpTo(S, k) ==
    IF k = 0 THEN {<<>>}
    ELSE LET shorter == SeqsUpTo(S, k - 1)
         IN shorter \cup {Append(q, e) : q \in shorter, e \in S}

ParamSeqs == SeqsUpTo(ParamTexts, MaxParams)
Places == DefinedPlaces \cup {"nowhere"}
\* the values user_name and subpath_class take
UserValues == UserTexts
ClassValues == {normpath(DEFAULT_CLASS)} \cup ClassFileTexts \cup ClassTexts

\* paths handed to valid_path
PathInputs ==
    {<<>>, RootDir, RootDir \o <<"/","x">>, SiblingDir,
     SiblingDir \o <<"/","x">>, SUBPATH_MU_CODE, LinkPath \o <<"/","x">>,
     RootDir \o <<"/","a","/",".",".","/",".",".","/","x">>,
     <<"~","/","m","u","_","c","o","d","e","/","c","o","d","e","i","n","p","y","t","h","o","n","_","e","n","v","/","x">>,
     <<"x">>}

\* path_get and valid_path over their finite inputs, computed once
PathGetTable ==
    [place \in Places, parameters \in ParamSeqs,
     user \in UserValues, class \in ClassValues |->
        LET created == path_create(place, parameters, user, class)
        IN [path_created |-> created, ret |-> path_get_check(created)]]
ValidPathTable ==
    [path_input \in PathInputs, allow_main \in BOOLEAN |->
        valid_path(path_input, allow_main)]

NoCall ==
    [op |-> "none", place |-> "", parameters |-> <<>>, path_input |-> <<>>,
     allow_main |-> FALSE, path_created |-> <<>>, ret |-> <<>>, ok |-> FALSE]

(***************************************************************************)
(* The settings object and the dialogs that set its fields                 *)
(***************************************************************************)
\* no panel has been updated, and no exception has left the loop
NoUpdates == [events |-> <<>>, exc |-> "none"]

\* the loop of update_all_panels_now without its try statement: the first
\* update() that raises ends the loop and the exception leaves it
RECURSIVE update_loop_no_try(_, _, _, _)
update_loop_no_try(elements, i, settings, failing) ==
    IF i > Len(elements) THEN NoUpdates
    ELSE IF elements[i] \in failing
    THEN [events |-> <<[panel |-> elements[i],
                        class_name |-> settings.class_name,
                        logged |-> FALSE]>>,
          exc |-> "Exception"]
    ELSE LET rest == update_loop_no_try(elements, i + 1, settings, failing)
         IN [rest EXCEPT !.events =
                 <<[panel |-> elements[i],
                    class_name |-> settings.class_name,
                    logged |-> FALSE]>> \o @]

\* the loop of update_all_panels_now from element i on: update() is called
\* on the element, which reads the settings as they are then, and an
\* Exception it raises is logged; failing holds the panels whose update()
\* raises
RECURSIVE update_loop(_, _, _, _)
update_loop(elements, i, settings, failing) ==
    IF i > Len(elements) THEN NoUpdates
    ELSE LET rest == update_loop(elements, i + 1, settings, failing)
         IN [rest EXCEPT !.events =
                 <<[panel |-> elements[i],
                    class_name |-> settings.class_name,
                    logged |-> elements[i] \in failing]>> \o @]

\* update_all_panels_now()
update_all_panels_now(elements, settings, failing) ==
    update_loop(elements, 1, settings, failing)

\* put_setting(key, value)
put_setting(settings, key, value, elements, failing) ==
    [settings_from_file |-> (key :> value) @@ settings,
     updates |-> update_all_panels_now(elements, (key :> value) @@ settings,
                                       failing)]

\* the mode object and the configuration tabs: the panels that register
ModePanel == "mode"
Tabs == {"config_tab_1", "config_tab_2"}
\* the most entries of object_to_update
MaxPanels == 3

\* the panels that are registered
Registered == {object_to_update[i] : i \in 1..Len(object_to_update)}

\* CodeInPython_Settings.__init__: subpath_class is taken from the built-in
\* class name before load_settings reads the file
InitSettings ==
    /\ \E c \in ClassFileTexts : settings_from_file = [class_name |-> c]
    /\ subpath_class = normpath(DEFAULT_CLASS)
    /\ user_name = <<>>
    /\ dialog_user = FALSE
    /\ object_to_update = <<>>
    /\ panel_updates = NoUpdates

\* CodeInPython.user_dialog
user_dialog ==
    /\ call.op = "none"
    /\ subpath_class' = settings_from_file.class_name
    /\ dialog_user' = TRUE
    /\ UNCHANGED <<user_name, settings_from_file, object_to_update,
                   panel_updates, call, install_vars>>

\* CodeInPython.user_change_clicked
user_change_clicked ==
    /\ call.op = "none"
    /\ dialog_user
    /\ \E text \in UserTexts :
           /\ user_name # text
           /\ user_name' = text
    /\ UNCHANGED <<subpath_class, settings_from_file, dialog_user,
                   object_to_update, panel_updates, call,
                   install_vars>>

\* CodeInPython_Config_Tab.settings_save_data: put_setting, the reset of
\* user_name, and update_all_panels_now once more
settings_save_data ==
    /\ call.op = "none"
    /\ \E student_class \in ClassTexts, failing \in SUBSET Registered :
        \E put \in {put_setting(settings_from_file, "class_name",
                                 student_class, object_to_update, failing)} :
           /\ settings_from_file' = put.settings_from_file
           /\ panel_updates' =
                  [put.updates EXCEPT !.events =
                      @ \o update_all_panels_now(object_to_update,
                                                 put.settings_from_file,
                                                 failing).events]
    /\ user_name' = <<>>
    /\ UNCHANGED <<subpath_class, dialog_user, object_to_update, call,
                   install_vars>>

\* a call path_get(place, *parameters); the program has one thread, so no
\* other operation starts before the call has returned
PathGetCall ==
    \E place \in Places, parameters \in ParamSeqs :
        /\ call.op = "none"
        /\ call' = [NoCall EXCEPT
                        !.op = "path_get", !.place = place,
                        !.parameters = parameters,
                        !.path_created =
                            PathGetTable[place, parameters, user_name,
                                         subpath_class].path_created,
                        !.ret =
                            PathGetTable[place, parameters, user_name,
                                         subpath_class].ret]
        /\ UNCHANGED <<settings_vars, install_vars>>

\* a call valid_path(path_input, allow_main)
ValidPathCall ==
    \E path_input \in PathInputs, allow_main \in BOOLEAN :
        /\ call.op = "none"
        /\ call' = [NoCall EXCEPT
                        !.op = "valid_path", !.path_input = path_input,
                        !.allow_main = allow_main,
                        !.ok = ValidPathTable[path_input, allow_main]]
        /\ UNCHANGED <<settings_vars, install_vars>>

\* the caller has taken the result
CallReturn ==
    /\ call.op # "none"
    /\ call' = NoCall
    /\ UNCHANGED <<settings_vars, install_vars>>

(***************************************************************************)
(* The file system: a function from the paths that exist to what is there  *)
(***************************************************************************)
\* the functions of os.path the file operations use, each a function of
\* its arguments alone
Path == Seq(STRING)
os_path_dirname == [p \in Path |-> dirname(p)]
os_path_basename == [p \in Path |-> basename(p)]
os_path_join == [a \in Path, b \in Path |-> join(a, b)]
os_path_normpath == [p \in Path |-> normpath(p)]
os_path_realpath == [p \in Path |-> realpath(p)]
os_path_splitext == [p \in Path |-> splitext_ext(p)]

\* path_clean, likewise
path_clean_of == [p \in Path |-> path_clean(p)]

Dir == [kind |-> "dir"]
File(content) == [kind |-> "file", content |-> content]

\* what an operation hands back: the file system after it, the exception it
\* raised, and the paths it created or wrote
NoExc == "none"
Done(d, touched) == [d |-> d, exc |-> NoExc, touched |-> touched]
Raise(d, exc) == [d |-> d, exc |-> exc, touched |-> {}]

\* os.path.exists, os.path.isdir, os.path.isfile
exists(d, p) == p \in DOMAIN d
isdir(d, p) == p \in DOMAIN d /\ d[p].kind = "dir"
isfile(d, p) == p \in DOMAIN d /\ d[p].kind = "file"

\* the directories above p, a normalised path: what precedes each of its
\* separators
ancestors_of ==
    [p \in Path |->
        {IF i = 1 THEN <<Sep>> ELSE SubSeq(p, 1, i - 1) :
            i \in {j \in 1..Len(p) : p[j] = Sep}} \ {p}]
ancestors(p) == ancestors_of[p]

\* q is p or lies below p
below(q, p) == q = p \/ startswith(q, p \o <<Sep>>)

\* os.listdir, as the paths of the entries
listdir(d, p) ==
    {q \in DOMAIN d : q # p /\ startswith(q, p) /\ os_path_dirname[q] = p}

\* os.makedirs(name)
makedirs(d, name) ==
    IF name = <<>> THEN Raise(d, "FileNotFoundError")
    ELSE IF exists(d, name) THEN Raise(d, "FileExistsError")
    ELSE IF \E a \in ancestors(name) : isfile(d, a)
    THEN Raise(d, "NotADirectoryError")
    ELSE LET made == {a \in ancestors(name) \cup {name} : ~exists(d, a)}
         IN Done([q \in DOMAIN d \cup made |->
                     IF q \in made THEN Dir ELSE d[q]], made)

\* shutil.rmtree(path, ignore_errors=True)
rmtree(d, path) ==
    IF isdir(d, path)
    THEN [q \in {e \in DOMAIN d : ~below(e, path)} |-> d[q]]
    ELSE d

\* os.remove(path)
os_remove(d, path) ==
    IF isfile(d, path)
    THEN Done([q \in DOMAIN d \ {path} |-> d[q]], {})
    ELSE IF isdir(d, path) THEN Raise(d, "IsADirectoryError")
    ELSE Raise(d, "FileNotFoundError")

\* os.path.samefile(a, b): there are no hard links
samefile(d, a, b) ==
    IF exists(d, a) /\ exists(d, b)
    THEN [ret |-> os_path_realpath[a] = os_path_realpath[b], exc |-> NoExc]
    ELSE [ret |-> FALSE, exc |-> "FileNotFoundError"]

\* open(target, "wb") and the writing of content
write_file(d, target, content) ==
    IF isdir(d, target) THEN Raise(d, "IsADirectoryError")
    ELSE IF \E a \in ancestors(target) : isfile(d, a)
    THEN Raise(d, "NotADirectoryError")
    ELSE IF ~isdir(d, os_path_dirname[target])
    THEN Raise(d, "FileNotFoundError")
    ELSE Done([q \in DOMAIN d \cup {target} |->
                  IF q = target THEN File(content) ELSE d[q]], {target})

\* shutil.copy2(src, dst)
copy2(d, src, dst) ==
    LET target == IF isdir(d, dst)
                  THEN os_path_join[dst, os_path_basename[src]] ELSE dst
    IN IF exists(d, src) /\ exists(d, target)
          /\ os_path_realpath[src] = os_path_realpath[target]
       THEN Raise(d, "SameFileError")
       ELSE IF ~exists(d, src) THEN Raise(d, "FileNotFoundError")
       ELSE IF isdir(d, src) THEN Raise(d, "IsADirectoryError")
       ELSE write_file(d, target, d[src].content)

\* body, with its parameter standing for the value of an expression that is
\* computed once
With(value, body(_)) == CHOOSE r \in {body(v) : v \in {value}} : TRUE

\* one operation after another: the second runs on what the first left, and
\* not at all when the first raised
Then(first, second(_)) ==
    With(first, LAMBDA f :
        IF f.exc # NoExc THEN f
        ELSE With(second(f.d), LAMBDA after :
                 [after EXCEPT !.touched = f.touched \cup after.touched]))

\* recursive_overwrite(src, dest)
RECURSIVE recursive_overwrite(_, _, _)
RECURSIVE overwrite_entries(_, _, _)
recursive_overwrite(d, src, dest) ==
    IF isdir(d, src)
    THEN Then(IF ~isdir(d, dest) THEN makedirs(d, dest) ELSE Done(d, {}),
              LAMBDA d1 :
                  With(listdir(d1, src), LAMBDA files :
                      overwrite_entries(d1, files, dest)))
    ELSE With(Then(IF ~isdir(d, os_path_dirname[dest])
                   THEN makedirs(d, os_path_dirname[dest]) ELSE Done(d, {}),
                   LAMBDA d1 : copy2(d1, src, dest)),
              LAMBDA copied :
                  IF copied.exc = "SameFileError"
                  THEN [copied EXCEPT !.exc = "TypeError"] \* src.replace(dest)
                  ELSE copied)

\* the loop "for f in files" of recursive_overwrite, files holding the paths
\* os.path.join(src, f) in the order the loop takes them
overwrite_entries(d, files, dest) ==
    IF files = {} THEN Done(d, {})
    ELSE With(CHOOSE e \in files : TRUE, LAMBDA f :
             With(os_path_join[dest, os_path_basename[f]], LAMBDA dest_f :
                 Then(recursive_overwrite(d, f, dest_f),
                      LAMBDA d1 :
                          With(files \ {f}, LAMBDA rest :
                              overwrite_entries(d1, rest, dest)))))

(***************************************************************************)
(* Archives and their manifest                                             *)
(***************************************************************************)
\* what a file holds: plain data, or a zip archive.  An archive that is not
\* intact has the signature zipfile.is_zipfile looks for and a directory
\* zipfile.ZipFile cannot read.  config says what the archive holds under
\* CONFIG_FILENAME: "none", "malformed" (no well-formed XML) or "ok", and
\* root is then the sequence of the children of the document's root.
Data(v) == [kind |-> "data", v |-> v]
Archive(intact, config, root) ==
    [kind |-> "zip", intact |-> intact, config |-> config, root |-> root]

\* the files every archive of the model carries besides its manifest
PayloadNames == << <<"x">>, SUBPATH_MAIN \o <<"2", Sep, "x">> >>

\* ZipFile.namelist with what each member holds
members(content) ==
    (IF content.config = "none" THEN <<>>
     ELSE << [name |-> CONFIG_FILENAME, content |-> Data("manifest")] >>)
    \o [i \in 1..Len(PayloadNames) |->
           [name |-> PayloadNames[i], content |-> Data("new")]]

\* ZipFile.extractall(path)
RECURSIVE extract_members(_, _, _, _)
extract_members(d, names, i, path) ==
    IF i > Len(names) THEN Done(d, {})
    ELSE With(os_path_normpath[os_path_join[path, names[i].name]],
              LAMBDA target :
             Then(Then(IF ~exists(d, os_path_dirname[target])
                       THEN makedirs(d, os_path_dirname[target])
                       ELSE Done(d, {}),
                       LAMBDA d1 : write_file(d1, target, names[i].content)),
                  LAMBDA d2 : extract_members(d2, names, i + 1, path)))

extractall(d, content, path) ==
    With(members(content), LAMBDA names : extract_members(d, names, 1, path))

\* str(text), as "{}".format(text) writes it
str(text) == IF text = None THEN <<"N", "o", "n", "e">> ELSE text

\* the first loop of xml_get_with_lang, from element i on: the language
\* that fits best; element.get("lang") is None for an element without the
\* attribute
RECURSIVE best_fit(_, _, _, _, _, _)
best_fit(child, i, name, lang, default, lang_best_fit) ==
    IF i > Len(child) THEN lang_best_fit
    ELSE IF child[i].tag # name
    THEN best_fit(child, i + 1, name, lang, default, lang_best_fit)
    ELSE IF child[i].lang = lang THEN lang                      \* break
    ELSE IF child[i].lang = default
    THEN best_fit(child, i + 1, name, lang, default, default)   \* continue
    ELSE best_fit(child, i + 1, name, lang, default,
                  IF lang_best_fit = None THEN child[i].lang
                  ELSE lang_best_fit)

\* the second loop of xml_get_with_lang, from element i on
RECURSIVE chosen_lines(_, _, _, _, _, _)
chosen_lines(child, i, name, lang_best_fit, separator, result) ==
    IF i > Len(child) THEN result
    ELSE chosen_lines(child, i + 1, name, lang_best_fit, separator,
                      IF child[i].tag = name /\ child[i].lang = lang_best_fit
                      THEN IF result = None THEN child[i].text
                           ELSE result \o separator \o str(child[i].text)
                      ELSE result)

\* xml_get_with_lang(child, name, lang, default, separator)
xml_get_with_lang(child, name, lang, default, separator) ==
    chosen_lines(child, 1, name,
                 best_fit(child, 1, name, lang, default, None),
                 separator, None)

\* the default of the parameter default of xml_get_with_lang
DefaultLang == <<"e", "n">>

\* xml_get_version(source) on an opened manifest: ET.parse, then the loop
\* over the children of the root; self.language is "pl" from __init__ on,
\* and the manifests here have no description element for it to choose
NoVersion == <<"-", "-", "-", "-">>
RECURSIVE last_release(_, _, _)
last_release(root, i, release) ==
    IF i > Len(root) THEN release
    ELSE last_release(root, i + 1,
                      IF root[i].tag = "release" THEN root[i].text
                      ELSE release)

RECURSIVE last_release_date(_, _, _)
last_release_date(root, i, date) ==
    IF i > Len(root) THEN date
    ELSE last_release_date(root, i + 1,
                           IF root[i].tag = "release_date" THEN root[i].text
                           ELSE date)

\* result of xml_get_version as line 580 makes it
Placeholders ==
    [release |-> NoVersion, date |-> NoVersion, description |-> NoVersion]

xml_get_version(content) ==
    IF content.config = "malformed"
    THEN [valid |-> FALSE, release |-> NoVersion, exc |-> "ParseError",
          result |-> Placeholders]
    ELSE [valid |-> TRUE, release |-> last_release(content.root, 1, NoVersion),
          exc |-> NoExc,
          result |->
              [release |-> last_release(content.root, 1, NoVersion),
               date |-> last_release_date(content.root, 1, NoVersion),
               description |->
                   xml_get_with_lang(content.root, "description",
                                     <<"p", "l">>, DefaultLang,
                                     <<"\n">>)]]

\* zip_get_version(source)
zip_get_version(d, source) ==
    IF isfile(d, source) /\ os_path_splitext[source] = ZIP_EXT
    THEN IF d[source].content.kind # "zip" \/ ~d[source].content.intact
         THEN [valid |-> FALSE, release |-> NoVersion, exc |-> "BadZipFile",
               result |-> Placeholders]
         ELSE IF d[source].content.config # "none"
         THEN xml_get_version(d[source].content)
         ELSE [valid |-> FALSE, release |-> NoVersion, exc |-> NoExc,
               result |-> Placeholders]
    ELSE [valid |-> FALSE, release |-> NoVersion, exc |-> NoExc,
          result |-> Placeholders]

\* zipfile.is_zipfile(src)
is_zipfile(d, src) == d[src].content.kind = "zip"

\* zip_check_content(input_path), src being the path it settles on
zip_check_src(d, src) ==
    IF ~isfile(d, src) THEN [ret |-> FALSE, exc |-> NoExc]
    ELSE IF is_zipfile(d, src)
    THEN [ret |-> zip_get_version(d, src).valid,
          exc |-> zip_get_version(d, src).exc]
    \* "_" is a local of the function, unbound on this branch
    ELSE [ret |-> FALSE, exc |-> "UnboundLocalError"]

(***************************************************************************)
(* update_data_from_zip                                                    *)
(***************************************************************************)
\* the texts of the remove and copy elements of the manifests
EntryTexts ==
    {<<"x">>, <<".",".","/","x">>,
     <<".",".","/">> \o SUBPATH_MAIN \o <<"2","/","x">>,
     ZIP_FILENAME, None}

\* the places and parameters update_data_from_zip resolves
InstallerPlaces ==
    {"main", "temp", "zip install default file", "zip archive file"}
InstallerParams ==
    {<<>>, << <<>> >>}
    \cup {<<text>> : text \in EntryTexts}
    \cup {<< <<>>, text >> : text \in EntryTexts}

\* self.path_get(place, *parameters), for the calls of the installer
InstallerPaths ==
    [place \in InstallerPlaces, parameters \in InstallerParams,
     user \in UserValues, class \in ClassValues |->
        path_get(place, parameters, user, class)]

\* self.valid_path(path_to_remove, False) of the remove loop
RemoveValid ==
    [text \in EntryTexts, user \in UserValues, class \in ClassValues |->
        valid_path(InstallerPaths["main", << <<>>, text >>, user, class],
                   FALSE)]

\* the state of a run: the file system, list_of_errors, the exception that
\* ended the try block, and the record of what the two loops did
Running(d) == [d |-> d, errors |-> <<>>, exc |-> NoExc, log |-> <<>>]

Event(pass, section, text, src, target, outcome, touched) ==
    [pass |-> pass, section |-> section, text |-> text, src |-> src,
     target |-> target, outcome |-> outcome, touched |-> touched]

\* the body of the remove loop without its call of valid_path
remove_element_unchecked(st, element, section, user, class) ==
    LET path_to_remove ==
            InstallerPaths["main", << <<>>, element.text >>, user, class]
        noted(outcome, d1) ==
            Append(st.log, Event("remove", section, element.text, <<>>,
                                 path_to_remove, outcome,
                                 DOMAIN st.d \ DOMAIN d1))
    IN IF st.exc # NoExc \/ element.tag # "remove" THEN st
       ELSE IF isdir(st.d, path_to_remove)
       THEN With(rmtree(st.d, path_to_remove), LAMBDA d1 :
                [st EXCEPT !.d = d1, !.log = noted("rmtree", d1)])
       ELSE IF isfile(st.d, path_to_remove)
       THEN With(os_remove(st.d, path_to_remove).d, LAMBDA d1 :
                [st EXCEPT !.d = d1, !.log = noted("os.remove", d1)])
       ELSE [st EXCEPT !.log = noted("absent", st.d)]

\* the body of "for element in child" of the remove loop
remove_element(st, element, section, user, class) ==
    LET path_to_remove ==
            InstallerPaths["main", << <<>>, element.text >>, user, class]
        noted(outcome, d1) ==
            Append(st.log, Event("remove", section, element.text, <<>>,
                                 path_to_remove, outcome,
                                 DOMAIN st.d \ DOMAIN d1))
    IN IF st.exc # NoExc \/ element.tag # "remove" THEN st
       ELSE IF RemoveValid[element.text, user, class]
       THEN IF isdir(st.d, path_to_remove)
            THEN With(rmtree(st.d, path_to_remove), LAMBDA d1 :
                     [st EXCEPT !.d = d1, !.log = noted("rmtree", d1)])
            ELSE IF isfile(st.d, path_to_remove)
            THEN With(os_remove(st.d, path_to_remove).d, LAMBDA d1 :
                     [st EXCEPT !.d = d1, !.log = noted("os.remove", d1)])
            ELSE [st EXCEPT !.log = noted("absent", st.d)]
       ELSE [st EXCEPT !.errors = Append(@, <<"removing", element.text>>),
                       !.log = noted("rejected", st.d)]

\* a copy that takes an existing destination for an error
copy_element_no_overwrite(st, element, section, user, class) ==
    LET src == InstallerPaths["temp", <<element.text>>, user, class]
        dest == InstallerPaths["main", << <<>>, element.text >>, user, class]
        noted(outcome, touched) ==
            Append(st.log, Event("copy", section, element.text, src, dest,
                                 outcome, touched))
    IN IF st.exc # NoExc \/ element.tag # "copy" THEN st
       ELSE IF ~exists(st.d, src) \/ exists(st.d, dest)
       THEN [st EXCEPT !.errors = Append(@, <<"copying", element.text>>),
                       !.log = noted("missing", {})]
       ELSE With(recursive_overwrite(st.d, src, dest), LAMBDA copied :
                [st EXCEPT !.d = copied.d, !.exc = copied.exc,
                           !.log = noted(IF copied.exc = NoExc THEN "copied"
                                         ELSE copied.exc, copied.touched)])

\* the body of "for element in child" of the copy loop
copy_element(st, element, section, user, class) ==
    LET src == InstallerPaths["temp", <<element.text>>, user, class]
        dest == InstallerPaths["main", << <<>>, element.text >>, user, class]
        noted(outcome, touched) ==
            Append(st.log, Event("copy", section, element.text, src, dest,
                                 outcome, touched))
    IN IF st.exc # NoExc \/ element.tag # "copy" THEN st
       ELSE IF ~exists(st.d, src)
       THEN [st EXCEPT !.errors = Append(@, <<"copying", element.text>>),
                       !.log = noted("missing", {})]
       ELSE With(recursive_overwrite(st.d, src, dest), LAMBDA copied :
                [st EXCEPT !.d = copied.d, !.exc = copied.exc,
                           !.log = noted(IF copied.exc = NoExc THEN "copied"
                                         ELSE copied.exc, copied.touched)])

RECURSIVE remove_loop(_, _, _, _, _, _)
remove_loop(st, elements, i, section, user, class) ==
    IF i > Len(elements) THEN st
    ELSE With(remove_element(st, elements[i], section, user, class),
              LAMBDA st1 :
                  remove_loop(st1, elements, i + 1, section, user, class))

\* a copy loop that copies nothing
copy_loop_skipped(st, elements, i, section, user, class) == st

RECURSIVE copy_loop(_, _, _, _, _, _)
copy_loop(st, elements, i, section, user, class) ==
    IF i > Len(elements) THEN st
    ELSE With(copy_element(st, elements[i], section, user, class),
              LAMBDA st1 :
                  copy_loop(st1, elements, i + 1, section, user, class))

\* one loop that removes and copies in document order
RECURSIVE one_loop(_, _, _, _, _, _)
one_loop(st, elements, i, section, user, class) ==
    IF i > Len(elements) THEN st
    ELSE With(remove_element(st, elements[i], section, user, class),
              LAMBDA st1 :
                  With(copy_element(st1, elements[i], section, user, class),
                       LAMBDA st2 :
                           one_loop(st2, elements, i + 1, section, user,
                                    class)))

\* an update child handled by one loop instead of two
update_child_one_loop(st, child, section, user, class) ==
    one_loop(st, child.elements, 1, section, user, class)

\* the two loops over the elements of one update child
update_child(st, child, section, user, class) ==
    With(remove_loop(st, child.elements, 1, section, user, class),
         LAMBDA st1 : copy_loop(st1, child.elements, 1, section, user, class))

\* "for child in root"
RECURSIVE children_loop(_, _, _, _, _)
children_loop(st, root, i, user, class) ==
    IF i > Len(root) THEN st
    ELSE With(IF root[i].tag = "update"
              THEN update_child(st, root[i], i, user, class)
              ELSE st,
              LAMBDA st1 : children_loop(st1, root, i + 1, user, class))

\* zip_check_content(input_path)
zip_check_content(d, input_path, user, class) ==
    With(IF input_path # <<>> THEN path_clean_of[input_path]
         ELSE InstallerPaths["zip install default file", <<>>, user, class],
         LAMBDA src : zip_check_src(d, src))

\* the copy of the archive to the archive file whatever list_of_errors holds
after_loops_always(st, zip_file_path, user, class) ==
    LET archive_file_path ==
            InstallerPaths["zip archive file", <<>>, user, class]
    IN IF st.exc # NoExc THEN st
       ELSE With(copy2(st.d, zip_file_path, archive_file_path), LAMBDA a :
                [st EXCEPT !.d = a.d, !.exc = a.exc])

\* what follows the loops: the report of list_of_errors, or the copy of the
\* archive to the archive file
after_loops(st, zip_file_path, user, class) ==
    LET archive_file_path ==
            InstallerPaths["zip archive file", <<>>, user, class]
        same == samefile(st.d, zip_file_path, archive_file_path)
        archived ==
            IF ~exists(st.d, archive_file_path)
            THEN copy2(st.d, zip_file_path, archive_file_path)
            ELSE IF same.exc # NoExc THEN Raise(st.d, same.exc)
            ELSE IF ~same.ret
            THEN copy2(st.d, zip_file_path, archive_file_path)
            ELSE Done(st.d, {})
    IN IF st.exc # NoExc \/ st.errors # <<>> THEN st
       ELSE With(archived, LAMBDA a : [st EXCEPT !.d = a.d, !.exc = a.exc])

\* the try block: extraction, parsing, the loops, and what follows them
try_block(d, zip_file_path, temp_path, user, class) ==
    With(extractall(d, d[zip_file_path].content, temp_path),
         LAMBDA extracted :
             With(IF extracted.exc # NoExc
                  THEN [Running(extracted.d) EXCEPT !.exc = extracted.exc]
                  ELSE children_loop(Running(extracted.d),
                                     d[zip_file_path].content.root, 1,
                                     user, class),
                  LAMBDA looped :
                      after_loops(looped, zip_file_path, user, class)))

\* the finally block
finally_block(d, zip_file_path, temp_path, user, class) ==
    IF zip_file_path
           = InstallerPaths["zip install default file", <<>>, user, class]
    THEN Then(os_remove(d, zip_file_path),
              LAMBDA d1 : Done(rmtree(d1, temp_path), {}))
    ELSE Done(rmtree(d, temp_path), {})

\* what a call leaves: the file system, what it returned ("None", "True",
\* "False", or "raised" with the exception that reached the caller), the
\* message boxes it showed, the record of the run, and the archive it read
Outcome(d, ret, exc, shown, st) ==
    [d |-> d, ret |-> ret, exc |-> exc, shown |-> shown,
     errors |-> st.errors, log |-> st.log, caught |-> st.exc,
     zip_file_path |-> <<>>]

\* from the try block to the end of update_data_from_zip
try_finally(d, zip_file_path, temp_path, user, class) ==
    With(try_block(d, zip_file_path, temp_path, user, class), LAMBDA tried :
        With(finally_block(tried.d, zip_file_path, temp_path, user, class),
             LAMBDA ended :
                 LET shown ==
                         IF tried.exc # NoExc
                         THEN <<"Cannot install from this zip file">>
                         ELSE IF tried.errors # <<>>
                         THEN <<"List of installation errors">>
                         ELSE <<>>
                 IN IF ended.exc # NoExc
                    THEN Outcome(ended.d, "raised", ended.exc, shown, tried)
                    ELSE IF tried.exc # NoExc
                    THEN Outcome(ended.d, "False", NoExc, shown, tried)
                    ELSE Outcome(ended.d, "True", NoExc, shown, tried)))

\* update_data_from_zip going on with every archive that has a manifest,
\* whatever zip_check_content returned
update_paths_unchecked(d, destinantion_path, zip_file_path, temp_path, user, class) ==
    With(rmtree(d, temp_path), LAMBDA cleared :
        With(zip_check_content(cleared, zip_file_path, user, class),
             LAMBDA checked :
                 IF checked.exc # NoExc
                 THEN Outcome(cleared, "raised", checked.exc, <<>>,
                              Running(cleared))
                 ELSE IF /\ ~checked.ret
                         /\ ~(/\ isfile(cleared, zip_file_path)
                              /\ is_zipfile(cleared, zip_file_path)
                              /\ cleared[zip_file_path].content.config = "ok")
                 THEN Outcome(cleared, "None", NoExc,
                              <<"Invalid data in zip file">>,
                              Running(cleared))
                 ELSE With(IF ~exists(cleared, destinantion_path)
                           THEN makedirs(cleared, destinantion_path)
                           ELSE Done(cleared, {}),
                           LAMBDA prepared :
                               IF prepared.exc # NoExc
                               THEN Outcome(prepared.d, "raised",
                                            prepared.exc, <<>>,
                                            Running(prepared.d))
                               ELSE try_finally(prepared.d, zip_file_path,
                                                temp_path, user, class))))

\* update_data_from_zip(source), with the paths it works on settled
update_paths(d, destinantion_path, zip_file_path, temp_path, user, class) ==
    With(rmtree(d, temp_path), LAMBDA cleared :
        With(zip_check_content(cleared, zip_file_path, user, class),
             LAMBDA checked :
                 IF checked.exc # NoExc
                 THEN Outcome(cleared, "raised", checked.exc, <<>>,
                              Running(cleared))
                 ELSE IF ~checked.ret
                 THEN Outcome(cleared, "None", NoExc,
                              <<"Invalid data in zip file">>,
                              Running(cleared))
                 ELSE With(IF ~exists(cleared, destinantion_path)
                           THEN makedirs(cleared, destinantion_path)
                           ELSE Done(cleared, {}),
                           LAMBDA prepared :
                               IF prepared.exc # NoExc
                               THEN Outcome(prepared.d, "raised",
                                            prepared.exc, <<>>,
                                            Running(prepared.d))
                               ELSE try_finally(prepared.d, zip_file_path,
                                                temp_path, user, class))))

\* update_data_from_zip(source)
update_data_from_zip(d, source, user, class) ==
    With(IF source = <<>>
         THEN InstallerPaths["zip install default file", <<>>, user, class]
         ELSE path_clean_of[source],
         LAMBDA zip_file_path :
             [update_paths(d, InstallerPaths["main", << <<>> >>, user, class],
                           zip_file_path,
                           InstallerPaths["temp", <<>>, user, class],
                           user, class)
                 EXCEPT !.zip_file_path = zip_file_path])

(***************************************************************************)
(* The archives and the file system the program starts with                *)
(***************************************************************************)
\* the most remove and copy elements of a manifest, and the most update
\* children they are spread over
MaxEntries == 2
MaxSections == 2

Entries == {[tag |-> tag, text |-> text] :
                tag \in {"remove", "copy"}, text \in EntryTexts}

\* the ways to cut a sequence into at most k pieces, none of them empty
RECURSIVE Splits(_, _)
Splits(e, k) ==
    IF e = <<>> THEN {<<>>}
    ELSE IF k = 0 THEN {}
    ELSE UNION {{<< SubSeq(e, 1, j) >> \o rest :
                    rest \in Splits(SubSeq(e, j + 1, Len(e)), k - 1)} :
                j \in 1..Len(e)}

Release == [tag |-> "release", text |-> <<"1">>]
Update(elements) == [tag |-> "update", elements |-> elements]

\* the update children of the manifests with at most k elements
Updates(k) ==
    {[i \in 1..Len(cut) |-> Update(cut[i])] :
        cut \in UNION {Splits(e, MaxSections) : e \in SeqsUpTo(Entries, k)}}

\* the roots of the well-formed manifests: a release element followed by
\* the update children, and the short ones also without a release element
Roots ==
    {<<Release>> \o updates : updates \in Updates(MaxEntries)}
    \cup Updates(MaxEntries - 1)

\* what the file offered for installation can be
Packages ==
    {Archive(TRUE, "ok", root) : root \in Roots}
    \cup {Archive(TRUE, "none", <<>>), Archive(TRUE, "malformed", <<>>),
          Archive(FALSE, "ok", <<>>), Data("junk")}

DownloadDir == <<"/","h","/","d","l">>
DownloadZip == DownloadDir \o <<"/","a",".","z","i","p">>
DownloadDat == DownloadDir \o <<"/","a",".","d","a","t">>
InboxFile == RootDir \o <<Sep>> \o ZIP_FILENAME
ScratchDir == RootDir \o <<Sep>> \o SUBPATH_TEMP
ArchiveFile == RootDir \o <<Sep>> \o SUBPATH_ARCHIVE \o <<Sep>> \o ZIP_FILENAME

\* the file system the program finds: the workspace root with a file x and
\* the inbox file, the same package downloaded under two names, and a
\* sibling of the root with a file of its own
InitFs(package) ==
    LET dirs == {<<Sep>>, HOME, SUBPATH_MU_CODE, RootDir, DownloadDir,
                 SiblingDir, OutsideDir}
        x == <<Sep, "x">>
        held == [p \in {RootDir \o x, SiblingDir \o x, InboxFile,
                        DownloadZip, DownloadDat} |->
                    IF p = RootDir \o x THEN Data("old")
                    ELSE IF p = SiblingDir \o x THEN Data("other")
                    ELSE package]
    IN [p \in dirs \cup DOMAIN held |->
           IF p \in dirs THEN Dir ELSE File(held[p])]

\* the archive an earlier run installed, and the file system with it in the
\* archive file
EarlierArchive == Archive(TRUE, "ok", <<Release>>)
Installed(d) ==
    write_file(makedirs(d, os_path_dirname[ArchiveFile]).d, ArchiveFile,
               EarlierArchive).d

\* the source argument of update_data_from_zip
Sources ==
    {<<>>, <<"~","/","m","u","_","c","o","d","e","/">> \o SUBPATH_MAIN
               \o <<Sep>> \o ZIP_FILENAME,
     DownloadZip, DownloadDat, ArchiveFile}

\* the input_path argument of zip_check_content
CheckInputs ==
    {<<>>, DownloadZip, DownloadDat, DownloadDir,
     DownloadDir \o <<"/","n","o",".","z","i","p">>}

NoRun ==
    [op |-> "none", source |-> <<>>, ret |-> "None", exc |-> NoExc,
     shown |-> <<>>, errors |-> <<>>, log |-> <<>>, caught |-> NoExc,
     zip_file_path |-> <<>>, before |-> <<>>]

InitPath ==
    /\ InitSettings
    /\ call = NoCall
    /\ fs = InitFs(Data("junk"))
    /\ run = NoRun

Init ==
    /\ settings_from_file = [class_name |-> DEFAULT_CLASS]
    /\ subpath_class = normpath(DEFAULT_CLASS)
    /\ user_name = <<>>
    /\ dialog_user = FALSE
    /\ object_to_update = <<>>
    /\ panel_updates = NoUpdates
    /\ call = NoCall
    /\ \E package \in Packages :
           fs \in {InitFs(package), Installed(InitFs(package))}
    /\ run = NoRun

\* a call update_data_from_zip(source), from its first line to its return
\* or to the exception that leaves it; the program has one thread, and a
\* handler runs to its end before the next one starts
UpdateCall ==
    /\ run.op = "none"
    /\ \E source \in Sources :
        \E out \in {update_data_from_zip(fs, source, user_name,
                                          subpath_class)} :
           /\ fs' = out.d
           /\ run' = [op |-> "update_data_from_zip", source |-> source,
                      ret |-> out.ret, exc |-> out.exc, shown |-> out.shown,
                      errors |-> out.errors, log |-> out.log,
                      caught |-> out.caught,
                      zip_file_path |-> out.zip_file_path, before |-> fs]
           /\ UNCHANGED <<settings_vars, call>>

\* a call zip_check_content(input_path)
ZipCheckCall ==
    /\ run.op = "none"
    /\ \E input_path \in CheckInputs :
        \E out \in {zip_check_content(fs, input_path, user_name,
                                       subpath_class)} :
           /\ run' = [NoRun EXCEPT
                          !.op = "zip_check_content", !.source = input_path,
                          !.ret = IF out.exc # NoExc THEN "raised"
                                  ELSE IF out.ret THEN "True" ELSE "False",
                          !.exc = out.exc, !.before = fs]
           /\ UNCHANGED <<settings_vars, call, fs>>

\* the folders initial_preparation requires
RequiredPlaces ==
    <<"main", "workspace", "libraries", "examples", "custom examples",
      "firmware", "zip_archive", "mu_modules">>

\* cip_settings.path_get(element), for the calls of initial_preparation
RequiredPaths ==
    [place \in {RequiredPlaces[i] : i \in 1..Len(RequiredPlaces)},
     user \in UserValues, class \in ClassValues |->
        path_get(place, <<>>, user, class)]

\* the loop of initial_preparation over the folders it requires
RECURSIVE required_folders(_, _, _, _)
required_folders(d, places, user, class) ==
    IF places = <<>> THEN Done(d, {})
    ELSE LET check_path == RequiredPaths[Head(places), user, class]
         IN Then(IF ~isdir(d, check_path) THEN makedirs(d, check_path)
                 ELSE Done(d, {}),
                 LAMBDA d1 : required_folders(d1, Tail(places), user, class))

\* CodeInPython.initial_preparation
initial_preparation ==
    /\ run.op = "none"
    /\ \E out \in {required_folders(fs, RequiredPlaces, user_name,
                                     subpath_class)} :
       /\ fs' = out.d
       /\ run' = [NoRun EXCEPT !.op = "initial_preparation",
                               !.exc = out.exc, !.before = fs]
       /\ UNCHANGED <<settings_vars, call>>

NextPath ==
    \/ user_dialog
    \/ user_change_clicked
    \/ settings_save_data
    \/ PathGetCall
    \/ ValidPathCall
    \/ CallReturn

SpecPath == InitPath /\ [][NextPath]_vars

\* the call has ended and the event loop of the program has control again
Return ==
    /\ run.op # "none"
    /\ run' = NoRun
    /\ UNCHANGED <<settings_vars, call, fs>>

Next ==
    \/ UpdateCall
    \/ ZipCheckCall
    \/ initial_preparation
    \/ Return

Spec == Init /\ [][Next]_vars

(***************************************************************************)
(* Properties of the resolver                                              *)
(***************************************************************************)
\* the components of a path: the pieces between its separators
components(p) == SelectSeq(str_split(p, Sep), LAMBDA piece : piece # <<>>)

\* p is the directory top or lies below it, component by component
InTree(p, top) ==
    /\ isabs(p)
    /\ Len(components(top)) <= Len(components(p))
    /\ SubSeq(components(p), 1, Len(components(top))) = components(top)

\* p is canonical: absolute, with no empty, "." or ".." component, and no
\* symbolic link on the way
Canonical(p) ==
    /\ isabs(p)
    /\ str_join(components(p), Sep) = Tail(p)
    /\ \A i \in 1..Len(components(p)) :
           components(p)[i] \notin {Dot, DotDot}
    /\ realpath(p) = p

\* s contains the characters of part, in a row
Contains(s, part) ==
    \E i \in 1..(Len(s) - Len(part) + 1) :
        SubSeq(s, i, i + Len(part) - 1) = part

\* a parameter string that contains "..", contains "/" or is absolute
Adversarial(parameter) ==
    /\ parameter # None
    /\ \/ Contains(parameter, DotDot)
       \/ Contains(parameter, <<Sep>>)
       \/ isabs(parameter)

AdversarialCall ==
    /\ call.op = "path_get"
    /\ call.place \in DefinedPlaces
    /\ \E i \in 1..Len(call.parameters) : Adversarial(call.parameters[i])

\* C1: whatever the place, the parameters, user_name and subpath_class,
\* path_get returns the empty string or a path whose canonical form is the
\* workspace root or lies below it, component by component.
C1_PathGetInsideRoot ==
    (call.op = "path_get" /\ call.ret \notin {<<>>, ValueError})
        => InTree(realpath(call.ret), RootDir)

\* C2: valid_path(path, allow_main=True) is True only when the canonical
\* form of path is the root or has the root as a whole-component ancestor;
\* a sibling whose name merely begins with the root's name is rejected.
C2_ValidPathWholeComponents ==
    (call.op = "valid_path" /\ call.allow_main /\ call.ok)
        => InTree(path_clean(call.path_input), RootDir)

UpdateEnded == run.op = "update_data_from_zip"

\* the events of the run that a loop of the given pass recorded
EventsOf(pass) == {i \in 1..Len(run.log) : run.log[i].pass = pass}

\* the event handed its target to shutil.rmtree or os.remove
Removed(i) == run.log[i].outcome \in {"rmtree", "os.remove"}

\* C4: every path the remove pass hands to shutil.rmtree or os.remove is a
\* strict descendant of the workspace root; the root itself and anything
\* outside the root tree is never a removal target.
C4_RemoveOnlyBelowRoot ==
    UpdateEnded =>
        \A i \in EventsOf("remove") :
            Removed(i) =>
                /\ InTree(os_path_realpath[run.log[i].target], RootDir)
                /\ run.log[i].target # RootDir

\* C5: the copy pass creates or overwrites files only inside the workspace
\* root tree, and writes nothing for an entry whose destination path_get
\* refused.
C5_CopyOnlyInsideRoot ==
    UpdateEnded =>
        \A i \in EventsOf("copy") :
            /\ \A p \in run.log[i].touched :
                   InTree(os_path_realpath[p], RootDir)
            /\ run.log[i].target = <<>> => run.log[i].touched = {}

\* within an update child no remove entry is handled after a copy entry, and
\* the update children are handled in document order
TwoPasses ==
    \A i, j \in 1..Len(run.log) :
        i < j =>
            /\ run.log[i].section <= run.log[j].section
            /\ run.log[i].section = run.log[j].section =>
                   ~(run.log[i].pass = "copy" /\ run.log[j].pass = "remove")

\* the pairs of a remove entry and a copy entry of one update child that
\* name the same path
NamedByBoth ==
    {pair \in EventsOf("remove") \X EventsOf("copy") :
        /\ run.log[pair[1]].section = run.log[pair[2]].section
        /\ run.log[pair[1]].text = run.log[pair[2]].text}

\* the path is there, a file holding what the archive carries or a directory
PresentFromArchive(p) ==
    /\ exists(fs, p)
    /\ isfile(fs, p) =>
           \E i \in 1..Len(members(run.before[run.zip_file_path].content)) :
               fs[p].content
                   = members(run.before[run.zip_file_path].content)[i].content

CopyLasted(j) ==
    /\ run.log[j].outcome = "copied"
    /\ below(run.log[j].src, ScratchDir)
    /\ \A k \in EventsOf("remove") :
           (k > j /\ Removed(k))
               => ~below(run.log[j].target, run.log[k].target)
    /\ ~(run.zip_file_path = InboxFile /\ run.log[j].target = InboxFile)
    /\ ~below(run.log[j].target, ScratchDir)

C7_ScratchGoneAfterCall ==
    UpdateEnded => ~exists(fs, ScratchDir)

\* C8: a call whose source is the inbox file, given as "" or as a path equal
\* to it, leaves no inbox file when the file existed at the call, whether
\* the archive was valid or not.
C8_InboxConsumed ==
    (/\ UpdateEnded
     /\ run.zip_file_path = InboxFile
     /\ isfile(run.before, InboxFile))
        => ~exists(fs, InboxFile)

\* the target is a regular file, a zip container that can be read, and it
\* carries a manifest that parses and has a release element
ValidArchive(d, src) ==
    /\ isfile(d, src)
    /\ d[src].content.kind = "zip"
    /\ d[src].content.intact
    /\ d[src].content.config = "ok"
    /\ \E i \in 1..Len(d[src].content.root) :
           d[src].content.root[i].tag = "release"

\* C9: zip_check_content returns True exactly when its target is a regular
\* file, a valid zip container with a manifest that parses and has a
\* release value; otherwise it returns False, and it raises nothing.
C9_CheckContentExact ==
    run.op = "zip_check_content" =>
        /\ run.ret # "raised"
        /\ run.ret = "True" <=>
               ValidArchive(run.before,
                            IF run.source = <<>> THEN InboxFile
                            ELSE path_clean_of[run.source])

\* the exceptions that validating, extracting and parsing an archive raise
ArchiveExceptions == {"UnboundLocalError", "BadZipFile", "ParseError"}

\* C10: an exception raised while the archive is validated, extracted or
\* parsed does not reach the caller of update_data_from_zip: the call
\* returns False, with a message box, and the finally block has run.
C10_ArchiveExceptionsCaught ==
    UpdateEnded =>
        /\ run.ret = "raised" => run.exc \notin ArchiveExceptions
        /\ run.caught \in ArchiveExceptions =>
               /\ run.ret = "False"
               /\ run.shown # <<>>
               /\ ~exists(fs, ScratchDir)

(***************************************************************************)
(* Properties of the two loops and of what follows them                    *)
(***************************************************************************)
\* the children of the root of the manifest the call read
Manifest == run.before[run.zip_file_path].content.root

\* zip_check_content accepted the source of the call
Accepted ==
    /\ UpdateEnded
    /\ zip_check_content(run.before, run.zip_file_path, user_name,
                         subpath_class) = [ret |-> TRUE, exc |-> NoExc]

\* the remove and copy elements of the update children of the manifest
ManifestEntries ==
    {e \in (1..Len(Manifest)) \X (1..MaxEntries) :
        /\ Manifest[e[1]].tag = "update"
        /\ e[2] <= Len(Manifest[e[1]].elements)}

\* the line of list_of_errors for the entry of an event
ErrorLine(i) ==
    <<IF run.log[i].pass = "remove" THEN "removing" ELSE "copying",
      run.log[i].text>>
InErrors(line) == \E k \in 1..Len(run.errors) : run.errors[k] = line

\* the entry of the event was not carried out
Failed(i) ==
    run.log[i].outcome \notin {"rmtree", "os.remove", "absent", "copied"}

\* the try block ended before its loops: extraction or parsing raised
AbortedBeforeLoops == run.log = <<>> /\ run.caught # NoExc

\* C11: a remove or copy entry that fails never stops the run: every entry
\* of every update section is attempted, and each failed entry is in the
\* error list.
C11_EntryFailureNeverStops ==
    (Accepted /\ ~AbortedBeforeLoops) =>
        /\ Len(run.log) = Cardinality(ManifestEntries)
        /\ \A i \in 1..Len(run.log) : Failed(i) => InErrors(ErrorLine(i))

\* the paths extractall leaves in the scratch directory
ExtractedPaths ==
    LET names == members(run.before[run.zip_file_path].content)
        files == {os_path_normpath[os_path_join[ScratchDir, names[i].name]] :
                     i \in 1..Len(names)}
    IN {ScratchDir}
       \cup files
       \cup {p \in UNION {ancestors(f) : f \in files} : below(p, ScratchDir)}

\* the path a copy entry names in the scratch directory
CopySource(text) ==
    InstallerPaths["temp", <<text>>, user_name, subpath_class]

\* the copy elements of the manifest that name nothing the archive carries
AbsentCopies ==
    {e \in ManifestEntries :
        /\ Manifest[e[1]].elements[e[2]].tag = "copy"
        /\ CopySource(Manifest[e[1]].elements[e[2]].text)
               \notin ExtractedPaths}

\* C12: a copy entry that names a path absent from the extracted archive
\* adds "- copying: <text>" to the error list and copies nothing, and every
\* other remove and copy entry of the manifest is still applied.
C12_AbsentCopyReported ==
    (Accepted /\ ~AbortedBeforeLoops) =>
        \A e \in AbsentCopies :
            /\ InErrors(<<"copying", Manifest[e[1]].elements[e[2]].text>>)
            /\ \E i \in EventsOf("copy") :
                   /\ run.log[i].section = e[1]
                   /\ run.log[i].text = Manifest[e[1]].elements[e[2]].text
                   /\ run.log[i].outcome = "missing"
                   /\ run.log[i].touched = {}
            /\ Len(run.log) = Cardinality(ManifestEntries)

\* a copy entry handled after event i wrote the path or something below it
CopiedAgain(i, p) ==
    \E j \in EventsOf("copy") :
        /\ j > i
        /\ \E q \in run.log[j].touched : q = p \/ below(q, p)

\* C13: a remove entry whose path fails valid_path(path, False) removes
\* nothing and adds "- removing: <text>" to the error list; one whose path
\* passes leaves no file and no directory tree at the path, and a path that
\* was absent already is not an error.
C13_RemoveEntryChecked ==
    UpdateEnded =>
        \A i \in EventsOf("remove") :
            /\ run.log[i].outcome = "rejected"
                   <=> ~RemoveValid[run.log[i].text, user_name, subpath_class]
            /\ run.log[i].outcome = "rejected" =>
                   /\ run.log[i].touched = {}
                   /\ InErrors(<<"removing", run.log[i].text>>)
            /\ run.log[i].outcome # "rejected" =>
                   /\ ~InErrors(<<"removing", run.log[i].text>>)
                   /\ \A q \in run.log[i].touched :
                          q = run.log[i].target \/ below(q, run.log[i].target)
                   /\ exists(fs, run.log[i].target)
                          => CopiedAgain(i, run.log[i].target)

\* a manifest with a remove entry that is refused and one that removes the
\* file x of the workspace root
C13_Witness ==
    /\ UpdateEnded
    /\ Len(run.log) = 2
    /\ run.log[1].pass = "remove" /\ run.log[1].outcome = "rejected"
    /\ run.errors = << <<"removing", run.log[1].text>> >>
    /\ run.log[2].pass = "remove" /\ run.log[2].outcome = "os.remove"
    /\ run.log[2].touched = {RootDir \o <<Sep, "x">>}
    /\ ~exists(fs, RootDir \o <<Sep, "x">>)

\* the run reached the end of its try block with an empty list_of_errors
FinishedClean == UpdateEnded /\ run.ret = "True" /\ run.errors = <<>>

\* C14: the archive file holds the source zip after a run that finished with
\* an empty error list and without exception; after any other run the
\* archive file is what it was before the call.
C14_ArchiveSlotWritten ==
    UpdateEnded =>
        IF FinishedClean
        THEN /\ isfile(fs, ArchiveFile)
             /\ fs[ArchiveFile].content
                    = run.before[run.zip_file_path].content
        ELSE /\ exists(fs, ArchiveFile) <=> exists(run.before, ArchiveFile)
             /\ exists(fs, ArchiveFile)
                    => fs[ArchiveFile] = run.before[ArchiveFile]

\* a run from another file than the archive file ended clean and replaced
\* the archive an earlier run had left there by the source zip
C14_Witness ==
    /\ FinishedClean
    /\ run.zip_file_path # ArchiveFile
    /\ isfile(run.before, ArchiveFile)
    /\ run.before[ArchiveFile].content
           # run.before[run.zip_file_path].content
    /\ isfile(fs, ArchiveFile)
    /\ fs[ArchiveFile].content = run.before[run.zip_file_path].content

\* the element of the manifest an entry stands for, and the path below the
\* workspace root its text names
Element(e) == Manifest[e[1]].elements[e[2]]
Destination(e) ==
    InstallerPaths["main", << <<>>, Element(e).text >>, user_name,
                   subpath_class]
RemoveEntries == {e \in ManifestEntries : Element(e).tag = "remove"}
CopyEntries == {e \in ManifestEntries : Element(e).tag = "copy"}

\* the archive was accepted, every remove entry names an existing path
\* inside the root that may be removed, and every copy entry names a path
\* the archive carries and a destination inside the root
WellFormedUpdate ==
    /\ Accepted
    /\ \A e \in RemoveEntries :
           /\ RemoveValid[Element(e).text, user_name, subpath_class]
           /\ InTree(Destination(e), RootDir)
           /\ exists(run.before, Destination(e))
    /\ \A e \in CopyEntries :
           /\ Element(e).text # None
           /\ CopySource(Element(e).text) \in ExtractedPaths
           /\ Destination(e) # <<>>
           /\ InTree(Destination(e), RootDir)

\* the two paths are the same or one lies below the other
Overlap(p, q) == below(p, q) \/ below(q, p)

\* C15 as stated: after a well-formed update every removed path is absent,
\* every copied path is present, and the error list is empty.
C15_WellFormedUpdateApplied ==
    WellFormedUpdate =>
        /\ run.errors = <<>>
        /\ \A e \in RemoveEntries : ~exists(fs, Destination(e))
        /\ \A e \in CopyEntries : PresentFromArchive(Destination(e))

\* C15 as amended: after a well-formed update the error list is empty, a
\* removed path is absent unless a copy entry of the same or of a later
\* update section names it, and a copied path is present with the
\* archive's content unless a remove entry of a later update section names
\* it.
C15_WellFormedUpdateAppliedInOrder ==
    WellFormedUpdate =>
        /\ run.errors = <<>>
        /\ \A e \in RemoveEntries :
               (\A c \in CopyEntries :
                    Overlap(Destination(c), Destination(e)) => c[1] < e[1])
                   => ~exists(fs, Destination(e))
        /\ \A c \in CopyEntries :
               (\A e \in RemoveEntries :
                    Overlap(Destination(c), Destination(e)) => e[1] <= c[1])
                   => PresentFromArchive(Destination(c))

\* an update from a downloaded file that removes the inbox file and copies
\* x: the inbox file is gone and x holds what the archive carries
C15_Witness ==
    /\ WellFormedUpdate
    /\ run.zip_file_path = DownloadZip
    /\ \E r \in RemoveEntries : Destination(r) = InboxFile
    /\ \E c \in CopyEntries : Destination(c) = RootDir \o <<Sep, "x">>
    /\ run.errors = <<>>
    /\ ~exists(fs, InboxFile)
    /\ fs[RootDir \o <<Sep, "x">>] = File(Data("new"))

(***************************************************************************)
(* Two calls in a row                                                      *)
(***************************************************************************)

\* a call update_data_from_zip(source) and, before anything else runs, a
\* second call with the same argument; the record of the first call is
\* kept and the second call is recorded next to it
UpdateInRow ==
    /\ \/ run.op = "none"
       \/ run.op = "update_data_from_zip" /\ "again" \notin DOMAIN run
    /\ \E source \in IF run.op = "none" THEN Sources ELSE {run.source} :
        \E out \in {update_data_from_zip(fs, source, user_name,
                                          subpath_class)} :
           /\ fs' = out.d
           /\ run' = IF run.op = "none"
                     THEN [op |-> "update_data_from_zip", source |-> source,
                           ret |-> out.ret, exc |-> out.exc,
                           shown |-> out.shown, errors |-> out.errors,
                           log |-> out.log, caught |-> out.caught,
                           zip_file_path |-> out.zip_file_path,
                           before |-> fs]
                     ELSE [op |-> run.op, source |-> run.source,
                           ret |-> run.ret, exc |-> run.exc,
                           shown |-> run.shown, errors |-> run.errors,
                           log |-> run.log, caught |-> run.caught,
                           zip_file_path |-> run.zip_file_path,
                           before |-> run.before,
                           again |-> [ret |-> out.ret, exc |-> out.exc,
                                      shown |-> out.shown,
                                      errors |-> out.errors,
                                      log |-> out.log,
                                      caught |-> out.caught,
                                      before |-> fs]]
           /\ UNCHANGED <<settings_vars, call>>

NextAgain == UpdateInRow

SpecAgain == Init /\ [][NextAgain]_vars

\* both calls have ended
Twice == UpdateEnded /\ "again" \in DOMAIN run

\* what the file system holds at the workspace root and below it
UnderRoot(d) == [p \in {q \in DOMAIN d : below(q, RootDir)} |-> d[p]]

\* the call went past the check of the archive, to the end of its try
\* statement, and its list of errors was empty
EmptyReport(r) == r.ret \in {"True", "False"} /\ r.errors = <<>>

\* C16 as stated: after two calls in a row with the same well-formed
\* archive the file system under the root is what the first call left, and
\* both calls ended with an empty list of errors.
C16_TwiceSameState ==
    (Twice /\ WellFormedUpdate) =>
        /\ UnderRoot(fs) = UnderRoot(run.again.before)
        /\ EmptyReport(run)
        /\ EmptyReport(run.again)

\* what the file system holds at the workspace root and below it, the
\* scratch directory left out
UnderRootButScratch(d) ==
    [p \in {q \in DOMAIN d : below(q, RootDir) /\ ~below(q, ScratchDir)}
        |-> d[p]]

\* C16 as amended: after two calls in a row with the same well-formed
\* archive the file system under the root is what the first call left,
\* but for a scratch directory that the first call left behind when it
\* raised and that the second call removes. A first call that returned
\* had an empty list of errors. The second call ends as the first did,
\* with an empty list of errors, unless the archive was the inbox file,
\* which the first call has consumed: the second call then rejects its
\* source and returns nothing.
C16_TwiceSameStateUnlessConsumed ==
    (Twice /\ WellFormedUpdate) =>
        /\ UnderRootButScratch(fs) = UnderRootButScratch(run.again.before)
        /\ ~exists(fs, ScratchDir)
        /\ run.exc = NoExc =>
               /\ EmptyReport(run)
               /\ UnderRoot(fs) = UnderRoot(run.again.before)
        /\ IF run.zip_file_path = InboxFile
           THEN /\ run.again.ret = "None"
                /\ run.again.shown = <<"Invalid data in zip file">>
                /\ run.again.log = <<>>
           ELSE /\ EmptyReport(run)
                /\ EmptyReport(run.again)
                /\ run.again.ret = run.ret
                /\ run.again.exc = NoExc
                /\ UnderRoot(fs) = UnderRoot(run.again.before)

\* two calls from a downloaded file whose manifest removes x and copies it
\* again: the second call removed and copied once more, and x is as the
\* first call left it
C16_Witness ==
    /\ Twice
    /\ WellFormedUpdate
    /\ run.zip_file_path = DownloadZip
    /\ run.ret = "True"
    /\ run.again.ret = "True"
    /\ \E i \in 1..Len(run.again.log) : run.again.log[i].outcome = "copied"
    /\ fs[RootDir \o <<Sep, "x">>] = File(Data("new"))
    /\ UnderRoot(fs) = UnderRoot(run.again.before)

(***************************************************************************)
(* A source that zip_check_content rejects                                 *)
(***************************************************************************)

\* the call has ended and zip_check_content returns False for its source
Rejected ==
    /\ UpdateEnded
    /\ zip_check_content(run.before, run.zip_file_path, user_name,
                         subpath_class) = [ret |-> FALSE, exc |-> NoExc]

\* C17: when zip_check_content rejects the source, update_data_from_zip
\* shows its warning and returns without a result before it extracts
\* anything: no remove or copy entry is applied, the scratch directory does
\* not exist, and nothing else of the file system has changed, the archive
\* file included.
C17_RejectedSourceAppliesNothing ==
    Rejected =>
        /\ run.ret = "None"
        /\ run.exc = NoExc
        /\ run.shown = <<"Invalid data in zip file">>
        /\ run.log = <<>>
        /\ run.errors = <<>>
        /\ ~exists(fs, ScratchDir)
        /\ fs = rmtree(run.before, ScratchDir)
        /\ exists(fs, ArchiveFile) <=> exists(run.before, ArchiveFile)
        /\ exists(fs, ArchiveFile) => fs[ArchiveFile] = run.before[ArchiveFile]

\* a rejected archive whose manifest has a remove entry for x and which is
\* offered next to an archive file: x and the archive file are as before
C17_Witness ==
    /\ Rejected
    /\ run.zip_file_path = DownloadDat
    /\ run.before[DownloadDat].content.kind = "zip"
    /\ run.before[DownloadDat].content.config = "ok"
    /\ \E e \in ManifestEntries :
           Element(e).tag = "remove" /\ Element(e).text = <<"x">>
    /\ fs[RootDir \o <<Sep, "x">>] = File(Data("old"))
    /\ exists(run.before, ArchiveFile)
    /\ fs[ArchiveFile] = File(EarlierArchive)
    /\ run.ret = "None"

(***************************************************************************)
(* zip_get_version                                                         *)
(***************************************************************************)

\* a call zip_get_version(source), for one of the two downloads, a
\* directory, a name nothing has, the archive file or the inbox file
ZipGetVersionCall ==
    /\ run.op = "none"
    /\ \E source \in {DownloadZip, DownloadDat, DownloadDir,
                      DownloadDir \o <<"/","n","o",".","z","i","p">>,
                      ArchiveFile, InboxFile} :
        \E out \in {zip_get_version(fs, source)} :
           /\ run' = [op |-> "zip_get_version", source |-> source,
                      exc |-> out.exc, valid |-> out.valid,
                      result |-> out.result, before |-> fs]
           /\ UNCHANGED <<settings_vars, call, fs>>

NextVersion ==
    \/ ZipGetVersionCall
    \/ Return

SpecVersion == Init /\ [][NextVersion]_vars

\* no manifest can be had from the path: it is no regular file, or a file
\* that is no zip archive, or a zip archive without the manifest
NoManifest(d, path) ==
    \/ ~isfile(d, path)
    \/ d[path].content.kind # "zip"
    \/ /\ d[path].content.kind = "zip"
       /\ d[path].content.intact
       /\ d[path].content.config = "none"

\* C18: zip_get_version returns False and the three placeholders, and does
\* not raise, whenever no manifest can be had from its path.
C18_NoManifestGivesPlaceholders ==
    (run.op = "zip_get_version" /\ NoManifest(run.before, run.source)) =>
        /\ run.exc = NoExc
        /\ ~run.valid
        /\ run.result = Placeholders

(***************************************************************************)
(* xml_get_with_lang                                                       *)
(***************************************************************************)

\* the most children of the element handed to xml_get_with_lang
MaxElements == 3

\* the children: each has a tag, a lang attribute or none, and a text or
\* none
XmlChildren ==
    LET elements == [tag : {"title", "tooltip"},
                     lang : {None, DefaultLang, <<"p", "l">>, <<"d", "e">>},
                     text : {None, <<"A">>, <<"B">>}]
    IN UNION {[1..n -> elements] : n \in 0..MaxElements}

\* a call xml_get_with_lang(child, "title", lang, separator=separator)
XmlGetWithLangCall ==
    /\ call.op = "none"
    /\ \E child \in XmlChildren,
          lang \in {None, DefaultLang, <<"p", "l">>, <<"f", "r">>},
          separator \in {<<>>, <<" ">>} :
           call' = [op |-> "xml_get_with_lang", child |-> child,
                    name |-> "title", lang |-> lang,
                    separator |-> separator,
                    lang_best_fit |->
                        best_fit(child, 1, "title", lang, DefaultLang, None),
                    ret |-> xml_get_with_lang(child, "title", lang,
                                              DefaultLang, separator)]
    /\ UNCHANGED <<settings_vars, install_vars>>

NextXml ==
    \/ XmlGetWithLangCall
    \/ CallReturn

SpecXml == InitPath /\ [][NextXml]_vars

\* a call of xml_get_with_lang has returned
XmlEnded == call.op = "xml_get_with_lang"

\* the children with the requested tag, by their place in the document
Tagged == {i \in 1..Len(call.child) : call.child[i].tag = call.name}
TaggedLangs == {call.child[i].lang : i \in Tagged}

\* the language the strict priority gives: the preferred one, else the
\* default, else that of the first child with the tag
PriorityLang ==
    IF call.lang \in TaggedLangs THEN call.lang
    ELSE IF DefaultLang \in TaggedLangs THEN DefaultLang
    ELSE call.child[CHOOSE i \in Tagged : \A j \in Tagged : i <= j].lang

\* C19: whatever the order of the children, the language chosen is the
\* preferred one if a child with the tag has it, else the default if a
\* child with the tag has it, else the language of the first child with
\* the tag.
C19_LanguageByPriority ==
    (XmlEnded /\ Tagged # {}) => call.lang_best_fit = PriorityLang

\* the texts of the children with the tag and the chosen language, from
\* child i on, joined by the separator; a child without text gives the
\* empty text
RECURSIVE Joined(_, _)
Joined(i, first) ==
    IF i > Len(call.child) THEN <<>>
    ELSE IF i \in Tagged /\ call.child[i].lang = call.lang_best_fit
    THEN (IF first THEN <<>> ELSE call.separator)
         \o (IF call.child[i].text = None THEN <<>> ELSE call.child[i].text)
         \o Joined(i + 1, FALSE)
    ELSE Joined(i + 1, first)

\* C20: the result is None exactly when no child has the tag, and is
\* otherwise the texts of the children with the tag and the chosen
\* language, in document order, joined by the separator.
C20_ResultIsJoinedTexts ==
    XmlEnded =>
        /\ call.ret = None <=> Tagged = {}
        /\ Tagged # {} => call.ret = Joined(1, TRUE)

(***************************************************************************)
(* Properties of the sanitising of parameters and of what path_get returns *)
(***************************************************************************)

\* one segment as the sanitising is described: stripped, each whitespace
\* character left inside replaced by "_", each character outside [-\w.]
\* removed
Sanitized(element) ==
    re_sub([i \in 1..Len(strip(element)) |->
               IF strip(element)[i] \in Whitespace THEN "_"
               ELSE strip(element)[i]])

\* a call of path_get for a defined place has returned
PathGetEnded == call.op = "path_get" /\ call.place \in DefinedPlaces

\* C21: the path __path_create makes is the one assembled from the place's
\* literal segments followed by the parameter segments, each stripped, with
\* every whitespace character inside replaced by "_" and every character
\* outside [-\w.] removed, in the order given.
C21_SegmentsSanitized ==
    PathGetEnded =>
        call.path_created =
            path_clean(path_assemble(<<>>,
                path_struct(call.place,
                            [i \in 1..Len(params_separate(call.parameters))
                                |-> Sanitized(
                                        params_separate(call.parameters)[i])],
                            user_name, subpath_class)))

\* every parameter is made of alphanumerics, "_", "-" and "." only
SafeParameters ==
    \A i \in 1..Len(call.parameters) :
        /\ call.parameters[i] # None
        /\ \A j \in 1..Len(call.parameters[i]) :
               call.parameters[i][j] \in WordChars \cup {"-", "."}

\* what the same call returns from the settings object as __init__ leaves it
ReturnedAtStart ==
    PathGetTable[call.place, call.parameters, <<>>,
                 normpath(DEFAULT_CLASS)].ret

\* the places whose path_struct entry holds subpath_class or user_name
PlacesOfUser ==
    {"class", "student", "student file", "student private",
     "student private file"}

UnknownPlaceCall == call.op = "path_get" /\ call.place \notin DefinedPlaces

\* C23: path_get with a place name that is not one of the defined places
\* raises ValueError for every parameter sequence; it returns neither a path
\* nor the empty string
C23_UnknownPlaceRaises ==
    UnknownPlaceCall =>
        /\ call.path_created = ValueError
        /\ call.ret = ValueError
        /\ call.ret # <<>>

\* path_get('nowhere', ' a b<tab>c ') has raised while a user is logged in
C23_Witness ==
    /\ UnknownPlaceCall
    /\ call.parameters = << <<" ","a"," ","b","\t","c"," ">> >>
    /\ user_name # <<>>
    /\ call.ret = ValueError

(***************************************************************************)
(* Properties of the two places that name a student's Python file          *)
(***************************************************************************)
\* C24: for the places 'student file' and 'student private file' the final
\* component of the resolved path is the base name of its parent directory
\* with '.py' appended, for every parameter sequence and every user_name
C24_FileNamedAfterDirectory ==
    (/\ call.op = "path_get"
     /\ call.place \in {"student file", "student private file"}
     /\ call.ret # <<>>) =>
        basename(call.ret) = basename(dirname(call.ret)) \o PY_EXT

(***************************************************************************)
(* Properties of the source of a copy entry                                *)
(***************************************************************************)
\* the copy entry of the event found its source and handed it to
\* recursive_overwrite
SourceTaken(i) == run.log[i].outcome # "missing"

\* C25: for every copy entry update_data_from_zip processes, the source path
\* it takes is inside the scratch extraction directory; what is elsewhere
\* under the workspace root is never the source of a copy
C25_CopySourceInScratch ==
    UpdateEnded =>
        \A i \in EventsOf("copy") :
            SourceTaken(i) => InTree(run.log[i].src, ScratchDir)

(***************************************************************************)
(* Properties of the class segment of the settings object                  *)
(***************************************************************************)
\* C27: in every reachable state of the settings object (after construction
\* with loaded settings, after put_setting('class_name', ...), after
\* settings_save_data) subpath_class, the class segment of the 'class' and
\* 'student' places, equals the current value of the setting 'class_name'
C27_ClassSegmentIsSetting == subpath_class = settings_from_file.class_name

(***************************************************************************)
(* The handlers that offer an archive for installation                     *)
(***************************************************************************)
\* a show_comparision_of_zip_files that asks nothing and returns True
show_comparision_always(d, source, answer, user, class) ==
    [ret |-> TRUE, exc |-> NoExc, shown |-> <<>>, asked |-> FALSE]

\* show_comparision_of_zip_files(source); answer is the button the user
\* presses in the question box
show_comparision_of_zip_files(d, source, answer, user, class) ==
    With(IF source = <<>>
         THEN InstallerPaths["zip install default file", <<>>, user, class]
         ELSE path_clean_of[source],
         LAMBDA source_path :
    With(zip_check_content(d, source_path, user, class), LAMBDA checked :
        IF checked.exc # NoExc
        THEN [ret |-> FALSE, exc |-> checked.exc, shown |-> <<>>,
              asked |-> FALSE]
        ELSE IF ~checked.ret
        THEN [ret |-> FALSE, exc |-> NoExc,
              shown |-> <<"This is not proper archive from CodeInPython">>,
              asked |-> FALSE]
        ELSE With(<<zip_get_version(d, source_path),
                    zip_get_version(d, ArchiveFile)>>,
                  LAMBDA version :
            IF version[1].exc # NoExc \/ version[2].exc # NoExc
            THEN [ret |-> FALSE,
                  exc |-> IF version[1].exc # NoExc THEN version[1].exc
                          ELSE version[2].exc,
                  shown |-> <<>>, asked |-> FALSE]
            ELSE IF version[1].valid
            THEN [ret |-> answer = "Yes", exc |-> NoExc,
                  shown |-> <<"Do you wish to install it?">>,
                  asked |-> TRUE]
            ELSE [ret |-> FALSE, exc |-> NoExc, shown |-> <<>>,
                  asked |-> FALSE])))

\* the exceptions "except OSError" catches
OSErrors ==
    {"OSError", "FileNotFoundError", "FileExistsError", "IsADirectoryError",
     "NotADirectoryError", "SameFileError"}

\* show_comparision_of_zip_files was not called
NotCompared == [ret |-> FALSE, exc |-> NoExc, shown |-> <<>>, asked |-> FALSE]

\* a handler up to its call of update_data_from_zip: the file system, the
\* exception that has left the handler or is on its way to its except
\* clause, whether the panel was registered, what
\* show_comparision_of_zip_files returned, and whether update_data_from_zip
\* is called next and with which argument
Before(d, exc, registered, entered, compared, go, source) ==
    [d |-> d, exc |-> exc, registered |-> registered, entered |-> entered,
     compared |-> compared, go |-> go, source |-> source]

\* workspace_dir up to its call of update_data_from_zip
workspace_dir_before(d, answer, user, class) ==
    With(required_folders(d, RequiredPlaces, user, class), LAMBDA prepared :
        IF prepared.exc # NoExc
        THEN Before(prepared.d, prepared.exc, FALSE, FALSE, NotCompared,
                    FALSE, <<>>)
        ELSE With(zip_check_content(prepared.d, <<>>, <<>>, class),
                  LAMBDA checked :
            IF checked.exc # NoExc \/ ~checked.ret
            THEN Before(prepared.d, checked.exc, TRUE, FALSE, NotCompared,
                        FALSE, <<>>)
            ELSE With(show_comparision_of_zip_files(prepared.d, <<>>, answer,
                                                    <<>>, class),
                      LAMBDA compared :
                IF compared.exc # NoExc
                THEN Before(prepared.d, compared.exc, TRUE, FALSE, compared,
                            FALSE, <<>>)
                ELSE IF compared.ret
                THEN Before(prepared.d, NoExc, TRUE, FALSE, compared, TRUE,
                            <<>>)
                ELSE With(os_remove(prepared.d, InboxFile),
                          LAMBDA removed :
                              Before(removed.d, removed.exc, TRUE, FALSE,
                                     compared, FALSE, <<>>)))))

\* update_zip_button_click up to its call of update_data_from_zip; filename
\* is what the file dialog returned, empty when it was cancelled
update_zip_button_click_before(d, filename, answer, user, class) ==
    IF filename = <<>>
    THEN Before(d, NoExc, FALSE, FALSE, NotCompared, FALSE, filename)
    ELSE With(show_comparision_of_zip_files(d, filename, answer, user,
                                            class),
              LAMBDA compared :
                  Before(d, compared.exc, FALSE, FALSE, compared,
                         compared.exc = NoExc /\ compared.ret, filename))

\* urllib.request.urlopen raised URLError, an OSError
NoResponse == [kind |-> "OSError"]

\* the folder update_server_button_click downloads to
TEMP_INTERNET == <<"t","e","m","p","_","i","n","t","e","r","n","e","t">>

\* update_server_button_click up to its call of update_data_from_zip;
\* response is what the server sent, or NoResponse when urlopen raised
update_server_button_click_before(d, response, answer, user, class) ==
    With(path_get("main", <<TEMP_INTERNET>>, user, class), LAMBDA temp_path :
    With(os_path_join[temp_path, ZIP_FILENAME], LAMBDA output_file :
    With(makedirs(rmtree(d, temp_path), temp_path), LAMBDA made :
        IF made.exc # NoExc
        THEN Before(made.d, made.exc, FALSE, FALSE, NotCompared, FALSE,
                    output_file)
        ELSE IF response = NoResponse
        THEN Before(made.d, "OSError", FALSE, TRUE, NotCompared, FALSE,
                    output_file)
        ELSE With(write_file(made.d, output_file, response),
                  LAMBDA written :
            IF written.exc # NoExc
            THEN Before(written.d, written.exc, FALSE, TRUE, NotCompared,
                        FALSE, output_file)
            ELSE With(show_comparision_of_zip_files(written.d, output_file,
                                                    answer, user, class),
                      LAMBDA compared :
                          Before(written.d, compared.exc, FALSE, TRUE,
                                 compared,
                                 compared.exc = NoExc /\ compared.ret,
                                 output_file))))))

\* the handlers and what each is given besides the answer to the question:
\* nothing, the name the file dialog returned, the response of the server
Handlers ==
    {"workspace_dir", "update_zip_button_click",
     "update_server_button_click"}
Choices(handler, d) ==
    IF handler = "workspace_dir" THEN {<<>>}
    ELSE IF handler = "update_zip_button_click"
    THEN {<<>>, DownloadZip, DownloadDat, ArchiveFile}
    ELSE {NoResponse} \cup {d[p].content : p \in {DownloadZip} \cap DOMAIN d}

\* the handler up to its call of update_data_from_zip
handler_before(handler, d, choice, answer, user, class) ==
    IF handler = "workspace_dir"
    THEN workspace_dir_before(d, answer, user, class)
    ELSE IF handler = "update_zip_button_click"
    THEN update_zip_button_click_before(d, choice, answer, user, class)
    ELSE update_server_button_click_before(d, choice, answer, user, class)

\* update_data_from_zip was not called
NotInstalled(d) == Outcome(d, "None", NoExc, <<>>, Running(d))

\* the handler from the return of update_data_from_zip on: the except and
\* finally clauses of update_server_button_click and the self.update() that
\* ends both buttons; workspace_dir ends there. What the handler leaves: the
\* file system, the exception that reaches its caller, and the message box
\* of the except clause
handler_end(handler, before, out, user, class) ==
    With(IF before.exc # NoExc THEN before.exc ELSE out.exc, LAMBDA exc :
        IF \/ handler = "update_server_button_click" /\ before.entered
           \/ handler = "update_zip_button_click" /\ exc = NoExc
        THEN With(IF handler = "update_server_button_click"
                  THEN rmtree(out.d, os_path_dirname[before.source])
                  ELSE out.d,
                  LAMBDA cleared :
                 \* CodeInPython_Config_Tab.update reads the archive file
                 With(zip_get_version(cleared, ArchiveFile), LAMBDA update :
                     [d |-> cleared,
                      exc |-> IF update.exc # NoExc THEN update.exc
                              ELSE IF exc \in OSErrors THEN NoExc ELSE exc,
                      shown |-> IF exc \in OSErrors
                                THEN <<"Cannot download proper software">>
                                ELSE <<>>]))
        ELSE [d |-> out.d, exc |-> exc, shown |-> <<>>])

\* one of the handlers, from its first line to its return or to the
\* exception that leaves it. workspace_dir registers the mode object and
\* logs the user out; the two buttons belong to a configuration tab
Handler(handler) ==
    /\ run.op = "none"
    /\ call.op = "none"
    /\ handler = "workspace_dir" => Len(object_to_update) < MaxPanels
    /\ handler # "workspace_dir" => Registered \ {ModePanel} # {}
    /\ \E choice \in Choices(handler, fs), answer \in {"Yes", "No"} :
        \E before \in {handler_before(handler, fs, choice, answer,
                                      user_name, subpath_class)} :
         \E out \in {IF before.go
                     THEN update_data_from_zip(
                              before.d, before.source,
                              IF handler = "workspace_dir" THEN <<>>
                              ELSE user_name, subpath_class)
                     ELSE NotInstalled(before.d)} :
          \E end \in {handler_end(handler, before, out, user_name,
                                  subpath_class)} :
           /\ fs' = end.d
           /\ object_to_update' =
                  IF before.registered
                  THEN Append(object_to_update, ModePanel)
                  ELSE object_to_update
           /\ user_name' = IF before.registered THEN <<>> ELSE user_name
           /\ run' = [op |-> handler, source |-> before.source,
                      choice |-> choice, answer |-> answer,
                      compared |-> before.compared, invoked |-> before.go,
                      update |-> out.ret,
                      ret |-> IF end.exc # NoExc THEN "raised" ELSE "None",
                      exc |-> end.exc,
                      shown |-> before.compared.shown \o out.shown
                                    \o end.shown,
                      errors |-> out.errors, log |-> out.log,
                      caught |-> out.caught,
                      zip_file_path |-> out.zip_file_path, before |-> fs]
           /\ UNCHANGED <<subpath_class, settings_from_file, dialog_user,
                          panel_updates, call>>

workspace_dir == Handler("workspace_dir")
update_zip_button_click == Handler("update_zip_button_click")
update_server_button_click == Handler("update_server_button_click")

(***************************************************************************)
(* The panels and the calls that update them                               *)
(***************************************************************************)
\* CodeInPython_Config_Tab.__init__: a new tab registers itself
Config_Tab_init ==
    /\ call.op = "none"
    /\ run.op = "none"
    /\ Len(object_to_update) < MaxPanels
    /\ \E tab \in Tabs \ Registered :
           object_to_update' = Append(object_to_update, tab)
    /\ UNCHANGED <<user_name, subpath_class, settings_from_file, dialog_user,
                   panel_updates, call, install_vars>>

\* the keys and values put_setting is called with
SettingKeys == {"class_name", "network_path"}

\* a call put_setting(key, value)
PutSettingCall ==
    /\ call.op = "none"
    /\ run.op = "none"
    /\ \E key \in SettingKeys, value \in ClassTexts,
          failing \in SUBSET Registered :
        \E put \in {put_setting(settings_from_file, key, value,
                                object_to_update, failing)} :
           /\ settings_from_file' = put.settings_from_file
           /\ panel_updates' = put.updates
           /\ call' = [op |-> "put_setting", key |-> key, value |-> value,
                       failing |-> failing]
    /\ UNCHANGED <<user_name, subpath_class, dialog_user, object_to_update,
                   install_vars>>

\* the archive in the inbox when the mode starts
InboxPackages ==
    {Archive(TRUE, "ok",
             <<Release, Update(<<[tag |-> "copy", text |-> <<"x">>]>>)>>),
     Data("junk")}

InitPanels ==
    /\ InitSettings
    /\ call = NoCall
    /\ \E package \in InboxPackages : fs = InitFs(package)
    /\ run = NoRun

NextPanels ==
    \/ workspace_dir
    \/ Config_Tab_init
    \/ PutSettingCall
    \/ settings_save_data
    \/ CallReturn
    \/ Return

SpecPanels == InitPanels /\ [][NextPanels]_vars

\* the mode is running and a configuration tab is open
InitInstall ==
    /\ settings_from_file = [class_name |-> DEFAULT_CLASS]
    /\ subpath_class = normpath(DEFAULT_CLASS)
    /\ user_name = <<>>
    /\ dialog_user = FALSE
    /\ object_to_update = <<ModePanel, "config_tab_1">>
    /\ panel_updates = NoUpdates
    /\ call = NoCall
    /\ \E package \in Packages :
           fs \in {InitFs(package), Installed(InitFs(package))}
    /\ run = NoRun

NextInstall ==
    \/ workspace_dir
    \/ update_zip_button_click
    \/ update_server_button_click

SpecInstall == InitInstall /\ [][NextInstall]_vars

(***************************************************************************)
(* Properties of the handlers that offer an archive                        *)
(***************************************************************************)
\* a handler that offers an archive has ended
HandlerEnded == run.op \in Handlers

\* what the handler offered: the inbox file, the file the user chose, or
\* what the server sent
Offered ==
    IF run.op = "update_server_button_click" THEN run.choice
    ELSE LET path == IF run.op = "workspace_dir" THEN InboxFile
                     ELSE path_clean(run.choice)
         IN IF isfile(run.before, path)
               /\ (path = InboxFile \/ splitext_ext(path) = ZIP_EXT)
            THEN run.before[path].content
            ELSE NoResponse

\* an intact zip archive with a manifest that parses
Proper(content) ==
    /\ content.kind = "zip"
    /\ content.intact
    /\ content.config = "ok"

\* what the handler does to the file system by itself: workspace_dir makes
\* the required folders and removes the inbox file after the answer No
HandlerOnly ==
    /\ \A p \in DOMAIN fs \cap DOMAIN run.before : fs[p] = run.before[p]
    /\ \A p \in DOMAIN fs \ DOMAIN run.before : fs[p] = Dir
    /\ \A p \in DOMAIN run.before \ DOMAIN fs :
           /\ p = InboxFile
           /\ run.op = "workspace_dir"
           /\ run.compared.asked
           /\ run.answer = "No"

\* C28: update_data_from_zip is only invoked for a source after
\* show_comparision_of_zip_files returned True for that source, that is
\* after the archive passed zip_check_content and the user answered Yes; when
\* the user answers No or the archive is rejected, no remove or copy entry
\* of the archive is applied
C28_InstallOnlyAfterYes ==
    HandlerEnded =>
        /\ run.invoked =>
               /\ run.compared.ret
               /\ run.compared.asked
               /\ run.answer = "Yes"
               /\ Proper(Offered)
        /\ (run.answer = "No" \/ ~Proper(Offered)) =>
               /\ ~run.invoked
               /\ run.log = <<>>
               /\ HandlerOnly

\* workspace_dir found an archive in the inbox that removes x and copies x,
\* the user answered No: the archive is gone and x is what it was
C28_Witness ==
    /\ run.op = "workspace_dir"
    /\ Proper(Offered)
    /\ Offered.root =
           <<Release, Update(<<[tag |-> "remove", text |-> <<"x">>],
                               [tag |-> "copy", text |-> <<"x">>]>>)>>
    /\ run.compared.asked
    /\ run.answer = "No"
    /\ ~exists(fs, InboxFile)
    /\ fs[RootDir \o <<Sep, "x">>] = File(Data("old"))

(***************************************************************************)
(* Properties of the panels                                                *)
(***************************************************************************)
\* a call of put_setting has ended
PutSettingEnded == call.op = "put_setting"

\* C29: put_setting(key, value) stores the value and then calls update() on
\* every registered panel in registration order; a panel whose update()
\* raises is logged and does not keep the panels registered after it from
\* being updated, and the exception does not reach the caller
C29_PutSettingUpdatesEveryPanel ==
    PutSettingEnded =>
        /\ settings_from_file[call.key] = call.value
        /\ Len(panel_updates.events) = Len(object_to_update)
        /\ \A i \in 1..Len(panel_updates.events) :
               /\ panel_updates.events[i].panel = object_to_update[i]
               /\ panel_updates.events[i].class_name
                      = settings_from_file.class_name
               /\ panel_updates.events[i].logged
                      <=> object_to_update[i] \in call.failing
        /\ panel_updates.exc = NoExc

\* put_setting('class_name', 'kl_1') with three panels registered, the
\* second of which raises in update()
C29_Witness ==
    /\ PutSettingEnded
    /\ call.key = "class_name"
    /\ object_to_update = <<"config_tab_1", "mode", "config_tab_2">>
    /\ call.failing = {"mode"}
    /\ Len(panel_updates.events) = 3
    /\ panel_updates.events[2].logged
    /\ panel_updates.events[3].panel = "config_tab_2"
    /\ ~panel_updates.events[3].logged

\* C30: after any sequence of workspace_dir calls, constructions of
\* configuration tabs and put_setting calls, each panel is at most once in
\* object_to_update, so one update_all_panels_now calls update() once on
\* each panel
C30_EachPanelOnce ==
    /\ \A i, j \in 1..Len(object_to_update) :
           object_to_update[i] = object_to_update[j] => i = j
    /\ PutSettingEnded =>
           \A p \in Registered :
               Cardinality({i \in 1..Len(panel_updates.events) :
                               panel_updates.events[i].panel = p}) = 1

(***************************************************************************)
(* example_check_correctness                                               *)
(***************************************************************************)
EXAMPLE_DESC_FILENAME ==
    <<"d","e","s","c","r","i","p","t","i","o","n",".","x","m","l">>

\* the content of a description file: text that ET.parse accepts, with the
\* children of its root, or text it does not accept
Description(wellformed, root) ==
    [kind |-> "xml", wellformed |-> wellformed, root |-> root]

\* what example_check_correctness returns: nothing, or the pair
NoPair == [result |-> "None", path |-> <<>>, exc |-> NoExc]
Pair(result, path) ==
    [result |-> IF result THEN "True" ELSE "False", path |-> path,
     exc |-> NoExc]

\* example_check_correctness from "if start_file is None" on
example_check_start(d, dir, start_file, locked) ==
    IF ~isdir(d, dir) THEN NoPair
    ELSE With(join(dir, split(IF start_file = None
                              THEN split(dir)[2] \o PY_EXT
                              ELSE start_file)[2]),
              LAMBDA full_dir :
                  Pair(~(locked \/ ~exists(d, full_dir)), full_dir))

\* example_check_correctness(dir); language is cip_settings.language
example_check_correctness(d, dir, language) ==
    With(join(dir, EXAMPLE_DESC_FILENAME), LAMBDA desc_file :
        IF ~isdir(d, dir) \/ ~exists(d, desc_file)
        THEN example_check_start(d, dir, None, FALSE)
        ELSE IF isdir(d, desc_file)
        THEN [NoPair EXCEPT !.exc = "IsADirectoryError"]
        ELSE IF d[desc_file].content.kind # "xml"
                \/ ~d[desc_file].content.wellformed
        THEN example_check_start(d, dir, None, TRUE)
        ELSE example_check_start(
                 d, dir,
                 xml_get_with_lang(d[desc_file].content.root, "start_file",
                                   language, DefaultLang, <<>>),
                 xml_get_with_lang(d[desc_file].content.root, "locked",
                                   None, DefaultLang, <<>>)
                     = <<"T","r","u","e">>))

\* a lesson folder under the examples, a file in it, and a path that does
\* not exist
LessonDir ==
    RootDir \o <<Sep>> \o SUBPATH_EXAMPLES \o <<Sep, "l","e","s">>
LessonDirs ==
    {LessonDir, LessonDir \o <<Sep, "m",".","p","y">>,
     LessonDir \o <<Sep, "n","o">>}

\* the children of the root of a description file
DescriptionElements ==
    [tag : {"start_file"}, lang : {None, <<"p","l">>},
     text : {None, <<"m",".","p","y">>, <<"n",".","p","y">>,
             <<"s","u","b","/","m",".","p","y">>}]
    \cup [tag : {"locked"}, lang : {None},
          text : {None, <<"T","r","u","e">>, <<"F","a","l","s","e">>}]
\* the description files: at most two children, one locked element at most
Descriptions ==
    {Description(TRUE, root) :
        root \in {r \in UNION {[1..n -> DescriptionElements] : n \in 0..2} :
                     \A i, j \in 1..Len(r) :
                         r[i].tag = "locked" /\ r[j].tag = "locked"
                             => i = j}}
    \cup {Description(FALSE, <<>>)}

\* the file system with the lesson folder, which holds m.py and, or not, the
\* description file (a file or a directory) and the file named after the
\* folder
InitExample ==
    /\ InitSettings
    /\ call = NoCall
    /\ run = NoRun
    /\ \E named \in BOOLEAN,
          description \in {Dir, File(Data("absent"))}
                              \cup {File(c) : c \in Descriptions} :
        LET base == makedirs(InitFs(Data("junk")), LessonDir).d
            files ==
                {LessonDir \o <<Sep, "m",".","p","y">>}
                \cup (IF named
                      THEN {LessonDir \o <<Sep, "l","e","s",".","p","y">>}
                      ELSE {})
            desc_file == join(LessonDir, EXAMPLE_DESC_FILENAME)
        IN fs = [p \in DOMAIN base \cup files
                        \cup (IF description = File(Data("absent")) THEN {}
                              ELSE {desc_file}) |->
                    IF p \in files THEN File(Data("code"))
                    ELSE IF p = desc_file THEN description
                    ELSE base[p]]

\* a call example_check_correctness(dir)
ExampleCheckCall ==
    /\ call.op = "none"
    /\ \E dir \in LessonDirs :
        \E out \in {example_check_correctness(fs, dir, <<"p","l">>)} :
           call' = [op |-> "example_check_correctness", dir |-> dir,
                    result |-> out.result, path |-> out.path,
                    exc |-> out.exc]
    /\ UNCHANGED <<settings_vars, install_vars>>

NextExample ==
    \/ ExampleCheckCall
    \/ CallReturn

SpecExample == InitExample /\ [][NextExample]_vars

(***************************************************************************)
(* Properties of example_check_correctness                                 *)
(***************************************************************************)
ExampleCheckEnded == call.op = "example_check_correctness"

\* the description file of the folder, where it is a file
DescriptionOf(dir) == fs[join(dir, EXAMPLE_DESC_FILENAME)].content

\* the folder has a description file that does not parse
Unparseable(dir) ==
    /\ isfile(fs, join(dir, EXAMPLE_DESC_FILENAME))
    /\ ~DescriptionOf(dir).wellformed

\* the folder has a description file that parses and whose locked element
\* reads True
Locked(dir) ==
    /\ isfile(fs, join(dir, EXAMPLE_DESC_FILENAME))
    /\ DescriptionOf(dir).wellformed
    /\ \E i \in 1..Len(DescriptionOf(dir).root) :
           /\ DescriptionOf(dir).root[i].tag = "locked"
           /\ DescriptionOf(dir).root[i].text = <<"T","r","u","e">>

\* C26: example_check_correctness(dir) returns nothing when dir is not an
\* existing directory, and a pair (bool, path) for every existing directory:
\* (False, path) when the description is locked or does not parse or the
\* start file does not exist, (True, path) otherwise
C26_PairForEveryDirectory ==
    ExampleCheckEnded =>
        IF ~isdir(fs, call.dir)
        THEN call.result = "None" /\ call.exc = NoExc
        ELSE /\ call.exc = NoExc
             /\ call.result \in {"True", "False"}
             /\ call.result = "False"
                    <=> \/ Locked(call.dir)
                        \/ Unparseable(call.dir)
                        \/ ~exists(fs, call.path)

\* the same for the folders whose description file, if there is one, is a
\* regular file
C26_PairForEveryDirectoryWithDescriptionFile ==
    (ExampleCheckEnded
     /\ ~isdir(fs, join(call.dir, EXAMPLE_DESC_FILENAME))) =>
        IF ~isdir(fs, call.dir)
        THEN call.result = "None" /\ call.exc = NoExc
        ELSE /\ call.exc = NoExc
             /\ call.result \in {"True", "False"}
             /\ call.result = "False"
                    <=> \/ Locked(call.dir)
                        \/ Unparseable(call.dir)
                        \/ ~exists(fs, call.path)
====
